---- MODULE Spec2Model ----
(***************************************************************************)
(* Probe-station controllers (safrie/Probe-Station): the parameter models  *)
(* of the Keithley 6221/2182A stack, the AMI 430 magnet controller, the    *)
(* LakeShore 336 temperature controller and the orchestrator's address     *)
(* handlers, as state machines.                                            *)
(*                                                                         *)
(* Conventions.                                                            *)
(*  - A Python object is a function from the names of the attributes that  *)
(*    have been assigned to their values; reading a name outside DOMAIN    *)
(*    raises AttributeError, as in Python.  Attributes holding None are    *)
(*    listed in the object's "none" set.                                   *)
(*  - A call that raises leaves the assignments made before the raise in   *)
(*    place; "call" records the last call, its argument, what it returned  *)
(*    (<<>> is None, <<v>> a value) and the exception that left it         *)
(*    ("" when it returned).                                               *)
(*  - A constructor that raises leaves the instance with the attributes    *)
(*    assigned up to the raise.                                            *)
(*  - Physical quantities are integers in a fixed unit: currents in uA,    *)
(*    pulse delays and widths in us, measurement delays of the             *)
(*    differential-conductance and delta modes and sweep cycle times in    *)
(*    ms, voltages in mV (compliance in 0.1 V), magnet currents in 0.01 A. *)
(*    Floating-point rounding is not modelled.                             *)
(*  - "wire" is the sequence of driver operations the last call issued.    *)
(*  - Python's range(a, b) and an inclusive tuple bound (lo, hi) are both  *)
(*    records [lo, hi, def]; range(a, b) is lo = a, hi = b - 1.            *)
(***************************************************************************)
EXTENDS Integers, Sequences, FiniteSets, TLC

VARIABLES meas, mag, temp, keith, gui, wire, call, visa, disk

vars == <<meas, mag, temp, keith, gui, wire, call, visa, disk>>

\* ------------------------------------------------------------------ bounds
\* How far outside a registry bound the probing inputs reach.
Slack == 1
\* Largest small current (uA) and step used to exercise the point count.
MaxCurr == 3
\* Longest list handed to the magnet's list setters.
MaxList == 2
\* Setter calls a measurement-type instance is followed for.
MaxCalls == 3

\* ----------------------------------------------------------------- helpers
Abs(x) == IF x < 0 THEN -x ELSE x

Has(o, a) == a \in DOMAIN o

\* self.a = v
Assign(o, a, v) == [x \in (DOMAIN o) \cup {a} |-> IF x = a THEN v ELSE o[x]]

Raised(op, arg, exc) == [op |-> op, arg |-> arg, ret |-> <<>>, exc |-> exc]

InBound(lim, x) == lim.lo <= x /\ x <= lim.hi

\* The inputs a setter is probed with: both edges of the bound and the
\* values up to Slack outside it.
Probe(lim) ==
    {lim.lo, lim.hi} \cup {lim.lo - d : d \in 1..Slack}
                     \cup {lim.hi + d : d \in 1..Slack}

\* The upper edge and the values outside the bound.
ProbeHi(lim) ==
    {lim.hi} \cup {lim.lo - d : d \in 1..Slack} \cup {lim.hi + d : d \in 1..Slack}

\* ---------------------------------------------------------------- registry
\* limits.KeithInfo: class attributes and the per-instance dictionaries.
KeithInfo ==
    [addr    |-> [lo |-> 1, hi |-> 31, def |-> 12],
     curr1   |-> [lo |-> -105000, hi |-> 105000, def |-> -1000],
     curr2   |-> [lo |-> -105000, hi |-> 105000, def |-> 1000],
     curr_step |-> [lo |-> 1, hi |-> 105000, def |-> 10],
     rate    |-> [lo |-> 1, hi |-> 60, def |-> 1],
     delay   |-> [lo |-> 1, hi |-> 9999999, def |-> 2],
     points  |-> [lo |-> 1, hi |-> 65536, def |-> 11],
     fwindow |-> [lo |-> 0, hi |-> 10, def |-> 0],
     fcount  |-> [lo |-> 2, hi |-> 300, def |-> 10],
     filt    |-> [keys |-> {0, 1}, def |-> 0,
                  txt |-> [i \in {0, 1} |-> IF i = 0 THEN "Moving" ELSE "Repeating"],
                  ondef |-> FALSE],
     unit    |-> [def |-> 0],
     meas    |-> [keys |-> 0..4, def |-> 0],
     compl_volt |-> [lo |-> 1, hi |-> 1050, def |-> 100],
     sour_range |-> [keys |-> 0..8, def |-> 5,
                     typ |-> [keys |-> {0, 1}, def |-> 0]]]

DeltaInfo ==
    [KeithInfo EXCEPT !.curr1 = [lo |-> 0, hi |-> 105000, def |-> 10000],
                      !.curr2 = [lo |-> -105000, hi |-> 0, def |-> 0],
                      !.points.def = 100]

PDeltInfo ==
    [KeithInfo EXCEPT !.curr1.def = 1000,
                      !.curr2.def = 0,
                      !.rate = [lo |-> 5, hi |-> 999999, def |-> 5],
                      !.delay = [lo |-> 16, hi |-> 11966, def |-> 16],
                      !.points.def = 100]
    @@ [width    |-> [lo |-> 50, hi |-> 12000, def |-> 110],
        low_meas |-> [lo |-> 1, hi |-> 2, def |-> 2]]

SweepInfo ==
    [PDeltInfo EXCEPT !.points = [lo |-> 1, hi |-> 65534, def |-> 11],
                      !.rate = [lo |-> 1, hi |-> 999999999, def |-> 100],
                      !.filt = [keys |-> {0}, def |-> 0,
                                txt |-> [i \in {0} |-> "Moving"],
                                ondef |-> FALSE]]
    @@ [sweeps |-> [lo |-> 1, hi |-> 9999, def |-> 1]]

PDeltLogInfo == SweepInfo

\* limits.ivinfo['dic'], by measurement index.  DconInfo() raises KeyError
\* (it reads self.field4['label']; the key is 'labels'), so index 0 has no
\* registry instance.
Classes == <<"DiffCon", "Delta", "PDelta", "PDeltaStair", "PDeltaLog">>

MeasIdx(cls) == CHOOSE i \in 0..4 : Classes[i + 1] = cls

ivinfo(cls) ==
    CASE cls = "Delta" -> DeltaInfo
      [] cls = "PDelta" -> PDeltInfo
      [] cls = "PDeltaStair" -> SweepInfo
      [] cls = "PDeltaLog" -> PDeltLogInfo

\* ------------------------------------------------- measurement-type models
\* An instance: its class, its assigned attributes, those holding None, and
\* the number of setter calls made on it (counted up to MaxCalls).
NoObject == [cls |-> "", attrs |-> <<>>, none |-> {}, n |-> 0]

SetAttr(o, a, v) == [o EXCEPT !.attrs = Assign(@, a, v), !.none = @ \ {a}]

\* What a method leaves behind: the instance, the return value, the exception.
Ok(o, ret) == [o |-> o, ret |-> ret, exc |-> ""]

Exc(o, e) == [o |-> o, ret |-> <<>>, exc |-> e]

\* if not lim[0] <= x <= lim[1]: x = def   (likewise: if x not in range)
Clamp(lim, x) == IF InBound(lim, x) THEN x ELSE lim.def

\* The registry of an instance (self.info); only read when the attribute exists.
InfoOf(o) == ivinfo(o.attrs.info)

\* KeithMeasure.calc_num_points
calc_num_points(start, stop, step) ==
    IF step = 0 THEN 1 ELSE Abs((stop - start) \div step) + 1

\* KeithMeasure.__init__(meas_idx); ivinfo['dic'][0]() raises KeyError.
KeithMeasure_init(cls) ==
    IF cls = "DiffCon"
    THEN Exc([NoObject EXCEPT !.cls = cls], "KeyError")
    ELSE LET info == ivinfo(cls)
             idx == MeasIdx(cls)
             a0 == [info |-> cls,
                    meas_idx |-> idx,
                    unit_idx |-> KeithInfo.unit.def,
                    curr1 |-> info.curr1.def,
                    curr2 |-> info.curr2.def,
                    num_points |-> info.points.def,
                    meas_delay |-> info.delay.def,
                    filter_idx |-> info.filt.def,
                    filter_on |-> KeithInfo.filt.ondef,
                    filter_window |-> KeithInfo.fwindow.def,
                    filter_count |-> KeithInfo.fcount.def]
             a1 == IF idx > 1 THEN Assign(a0, "low_meas", info.low_meas.def) ELSE a0
             a2 == IF idx > 2 THEN Assign(a1, "num_sweeps", info.sweeps.def) ELSE a1
             a3 == IF Has(info, "width") THEN Assign(a2, "pulse_width", info.width.def)
                   ELSE a2
             n  == (IF idx > 1 THEN {} ELSE {"low_meas"})
                   \cup (IF idx > 2 THEN {} ELSE {"num_sweeps"})
                   \cup (IF Has(info, "width") THEN {} ELSE {"pulse_width"})
         IN Ok([cls |-> cls, attrs |-> a3, none |-> n, n |-> 0], <<>>)

\* Delta.set_filter_idx and PDelta.set_filter_idx, for an integer index.
set_filter_idx_checked(o, index) ==
    IF ~Has(o.attrs, "info") THEN Exc(o, "AttributeError")
    ELSE LET info == InfoOf(o).filt
             i == IF index \in info.keys THEN index ELSE info.def
         IN Ok(SetAttr(SetAttr(o, "filter_idx", i), "filter_type", info.txt[i]), <<>>)

\* The constructors of the five classes.
Construct(cls) ==
    LET b == KeithMeasure_init(cls)
        o == b.o
        info == ivinfo(cls)
    IN IF b.exc # "" THEN b
       ELSE CASE cls = "Delta" ->
                   set_filter_idx_checked(
                       SetAttr(o, "meas_rate", info.rate.def), info.filt.def)
              [] cls = "PDelta" ->
                   set_filter_idx_checked(
                       SetAttr(o, "cycle_int", info.rate.def), info.filt.def)
              [] cls = "PDeltaStair" ->
                   Ok(SetAttr(SetAttr(SetAttr(SetAttr(o,
                        "curr_step", info.curr_step.def),
                        "num_points", calc_num_points(info.curr1.def, info.curr2.def,
                                                      info.curr_step.def)),
                        "cycle_time", info.rate.def),
                        "filter_type", info.filt.txt[info.filt.def]), <<>>)
              [] cls = "PDeltaLog" ->
                   Ok(SetAttr(SetAttr(o,
                        "cycle_time", info.rate.def),
                        "filter_type", info.filt.txt[info.filt.def]), <<>>)

\* A setter of the form: info = self.info.<f>; clamp; self.<attr> = value.
ClampSetter(o, f, attr, x, ret) ==
    IF ~Has(o.attrs, "info") THEN Exc(o, "AttributeError")
    ELSE LET v == Clamp(InfoOf(o)[f], x)
         IN Ok(SetAttr(o, attr, v), IF ret THEN <<v>> ELSE <<>>)

\* KeithMeasure.set_num_points
set_num_points(o, points) == ClampSetter(o, "points", "num_points", points, FALSE)

\* DiffCon.update_num_points / PDeltaStair.update_num_points
update_num_points(o) ==
    IF ~(Has(o.attrs, "curr1") /\ Has(o.attrs, "curr2") /\ Has(o.attrs, "curr_step"))
    THEN Exc(o, "AttributeError")
    ELSE set_num_points(o, calc_num_points(o.attrs.curr1, o.attrs.curr2,
                                           o.attrs.curr_step))

Stairs == {"DiffCon", "PDeltaStair"}

\* set_curr1: KeithMeasure's, extended by DiffCon and PDeltaStair.
set_curr1(o, curr) ==
    LET r == ClampSetter(o, "curr1", "curr1", curr, FALSE)
    IN IF r.exc = "" /\ o.cls \in Stairs THEN update_num_points(r.o) ELSE r

\* set_curr2: KeithMeasure's, extended by DiffCon and PDeltaStair.
set_curr2(o, curr) ==
    LET r == ClampSetter(o, "curr2", "curr2", curr, FALSE)
    IN IF r.exc = "" /\ o.cls \in Stairs THEN update_num_points(r.o) ELSE r

\* set_curr_step: a no-op in KeithMeasure, overridden by DiffCon and PDeltaStair.
set_curr_step(o, step) ==
    IF o.cls \in Stairs
    THEN LET r == ClampSetter(o, "curr_step", "curr_step", step, FALSE)
         IN IF r.exc = "" THEN update_num_points(r.o) ELSE r
    ELSE Ok(o, <<>>)

\* set_curr_delta: a no-op in KeithMeasure, overridden by DiffCon.
set_curr_delta(o, delta) ==
    IF o.cls = "DiffCon" THEN ClampSetter(o, "curr_delta", "curr_delta", delta, FALSE)
    ELSE Ok(o, <<>>)

\* set_meas_rate: each class stores the clamped rate under its own name.
set_meas_rate(o, rate) ==
    ClampSetter(o, "rate",
                CASE o.cls \in {"DiffCon", "Delta"} -> "meas_rate"
                  [] o.cls = "PDelta" -> "cycle_int"
                  [] OTHER -> "cycle_time",
                rate, FALSE)

\* KeithMeasure.set_meas_delay
set_meas_delay(o, delay) == ClampSetter(o, "delay", "meas_delay", delay, FALSE)

\* set_pulse_width: a no-op in KeithMeasure (DiffCon, Delta), overridden by the
\* three pulse classes.
set_pulse_width(o, width) ==
    IF o.cls \in {"PDelta", "PDeltaStair", "PDeltaLog"}
    THEN ClampSetter(o, "width", "pulse_width", width, FALSE)
    ELSE Ok(o, <<>>)

\* set_num_sweeps: a no-op in KeithMeasure, overridden by the two sweep classes.
set_num_sweeps(o, sweeps) ==
    IF o.cls \in {"PDeltaStair", "PDeltaLog"}
    THEN ClampSetter(o, "sweeps", "num_sweeps", sweeps, FALSE)
    ELSE Ok(o, <<>>)

\* set_filter_idx: a no-op in KeithMeasure, overridden by Delta and PDelta.
set_filter_idx(o, idx) ==
    IF o.cls \in {"Delta", "PDelta"} THEN set_filter_idx_checked(o, idx)
    ELSE Ok(o, <<>>)

\* KeithMeasure.set_filter_window (returns the stored window)
set_filter_window(o, wind) == ClampSetter(o, "fwindow", "filter_window", wind, TRUE)

\* KeithMeasure.set_filter_count (returns the stored count)
set_filter_count(o, count) == ClampSetter(o, "fcount", "filter_count", count, TRUE)

\* What DconInfo.__init__ has assigned when it raises: curr_delta is not
\* among it.
DconInfo ==
    [KeithInfo EXCEPT !.curr1.def = -10,
                      !.curr2.def = 10,
                      !.curr_step = [lo |-> 0, hi |-> 105000, def |-> 1]]

\* The bound a setter of class cls is probed around: the class's registry
\* entry, or for a class whose setter ignores its input the entry of a class
\* that has one.
TestLim(cls, f) ==
    LET r == IF cls = "DiffCon" THEN DconInfo ELSE ivinfo(cls)
        other == SweepInfo @@ [curr_delta |-> [lo |-> 0, hi |-> 105000, def |-> 1]]
    IN IF Has(r, f) THEN r[f] ELSE other[f]

\* m = Cls(), for the instance the behaviour follows
New(cls) ==
    /\ meas.cls = ""
    /\ LET r == Construct(cls)
       IN /\ meas' = r.o
          /\ call' = [op |-> "__init__", arg |-> MeasIdx(cls), ret |-> r.ret,
                      exc |-> r.exc]
    /\ UNCHANGED <<mag, temp, keith, gui, wire, visa, disk>>

\* m.<op>(x): r is what the method leaves behind.
MeasCall(op, x, r) ==
    /\ meas.cls # ""
    /\ meas' = [r.o EXCEPT !.n = IF @ < MaxCalls THEN @ + 1 ELSE @]
    /\ call' = [op |-> op, arg |-> x, ret |-> r.ret, exc |-> r.exc]
    /\ UNCHANGED <<mag, temp, keith, gui, wire, visa, disk>>

\* ---------------------------------------------------------------- file I/O
\* Save.__init__: the five attributes, all None.  name is <<>> for None and
\* otherwise the (path, filter) pair the file dialog returns.
Save_init ==
    [name |-> <<>>, file |-> "None", base |-> "None", ext |-> "None",
     data |-> "None"]

\* os.path.splitext(path), for the paths in use
splitext(path) ==
    CASE path = "a.txt" -> <<"a", ".txt">>
      [] path = "b.txt" -> <<"b", ".txt">>
      [] OTHER -> <<path, "">>

\* Save.new(name): open(name[0], 'w+') creates the file or truncates it.
\* fs is the file system, from path to the texts written, in order.
Save_new(sv, fs, name) ==
    LET s0 == [sv EXCEPT !.name = <<>>]
    IN IF name[1] = "" THEN [o |-> s0, fs |-> fs, ret |-> <<>>, exc |-> ""]
       ELSE [o |-> [s0 EXCEPT !.name = name, !.file = "closed",
                               !.base = splitext(name[1])[1],
                               !.ext = splitext(name[1])[2]],
             fs |-> Assign(fs, name[1], <<>>), ret |-> <<>>, exc |-> ""]

\* save.header(hdr): header is a function local to Save.new, not a method.
Save_header(sv, fs, hdr) == [o |-> sv, fs |-> fs, ret |-> <<>>, exc |-> "AttributeError"]

\* save.data(text): data, likewise local to Save.new, is shadowed by the
\* attribute self.data = None, and None is called.
Save_data(sv, fs, text) == [o |-> sv, fs |-> fs, ret |-> <<>>, exc |-> "TypeError"]

\* Config.__init__: the six attributes, all None (<<>> for the two trees).
Config_init ==
    [name |-> "None", file |-> "None", params |-> <<>>, base |-> "None",
     ext |-> "None", new |-> <<>>]

\* ------------------------------------------------------------- controllers
\* limits.TempInfo (class attributes): setpoints in K, rates in 0.1 K/min.
TempInfo ==
    [addr  |-> [lo |-> 1, hi |-> 31, def |-> 11],
     to_measure |-> [keys |-> {0, 1}, def |-> 0,
                     dic |-> [i \in {0, 1} |-> IF i = 0 THEN "controlled" ELSE "all"]],
     power |-> [lo |-> 0, hi |-> 3, def |-> 0],
     rate  |-> [lo |-> 1, hi |-> 1000, def |-> 10, also |-> 0],
     setpt |-> [lo |-> 3, hi |-> 325, def |-> 4]]

\* limits.MagInfo (class attributes): volt in mV, curr in units of 0.01 A.
\* field and rate are set by MagInfo.__init__ and so are not attributes of
\* the class, which is what the controllers import.
MagInfo ==
    [addr |-> [lo |-> 1, hi |-> 10, def |-> 2],
     seg  |-> [lo |-> 1, hi |-> 10, def |-> 1],
     volt |-> [lo |-> 1, hi |-> 6000, def |-> 2000],
     curr |-> [lo |-> 0, hi |-> 2630, def |-> 2630]]

\* MagInfo.field['lim'], per field unit index (kilogauss, tesla, amps); the
\* targets of the model are whole numbers, for which 26.3 bounds as 26 does.
field_lim == [i \in 0..2 |-> CASE i = 0 -> 30 [] i = 1 -> 3 [] i = 2 -> 26]

\* Instrument.infodic
infodic(instr) ==
    CASE instr = "Keith" -> KeithInfo
      [] instr = "Temp" -> TempInfo
      [] instr = "Mag" -> MagInfo

\* Instrument.__init__(instr): stores self.info, then reads
\* self.info.measure, which no registry class defines.
Instrument_init(instr) == Exc(Assign(<<>>, "info", instr), "AttributeError")

\* Mag.__init__: super().__init__('Mag') raises.
Mag_init == Instrument_init("Mag")

\* Temp.__init__: super().__init__('Temp') raises.
Temp_init == Instrument_init("Temp")

\* Keith.__init__: super().__init__() is called without the instrument name.
Keith_init == Exc(<<>>, "TypeError")

\* ProbeGui.init_ui: Keith() raises after list_box, save and config are set.
ProbeGui_init ==
    Exc([list_box |-> TRUE, save |-> Save_init, config |-> Config_init],
        "TypeError")

\* Instrument.address (setter): obj.address = addr
address_set(o, addr) ==
    IF ~Has(o, "info") THEN Exc(o, "AttributeError")
    ELSE Ok(Assign(o, "_address", Clamp(infodic(o.info).addr, addr)), <<>>)

\* Instrument.address (getter)
address_get(o) ==
    IF Has(o, "_address") THEN Ok(o, <<o._address>>) ELSE Exc(o, "AttributeError")

\* Mag.set_address / Temp.set_address: Instrument defines no set_address.
super_set_address(o, addr) == Exc(o, "AttributeError")

\* Keith.set_address: clamps, then calls the missing Instrument.set_address.
Keith_set_address(o, addr) == super_set_address(o, Clamp(KeithInfo.addr, addr))

\* ProbeGui.set_keith_address(addr)
set_keith_address(g, k, addr) ==
    IF ~Has(g, "kwind") \/ ~Has(g, "keith") THEN Exc(k, "AttributeError")
    ELSE LET r == address_set(k, addr)
         IN IF r.exc # "" THEN r ELSE [address_get(r.o) EXCEPT !.ret = <<>>]

\* ProbeGui.set_temp_address / set_mag_address: obj.address(addr) calls the
\* integer the property returns.
set_instr_address(g, name, o, addr) ==
    IF ~Has(g, name) THEN Exc(o, "AttributeError")
    ELSE IF address_get(o).exc # "" THEN Exc(o, "AttributeError")
    ELSE Exc(o, "TypeError")

\* ---------------------------------------------------------------- magnet
\* Every use of the name lims in magnet.py: the module neither defines nor
\* imports it.
lims(o) == Exc(o, "NameError")

\* Mag.field_unit(form): self.field_unit_switch is defined nowhere.
Mag_field_unit(o) == Exc(o, "AttributeError")

\* A call of a vMag method through self.visa: the attribute is missing, or
\* (after set_pars) it is the class vMag, whose methods then lack an argument.
visa_call(o) ==
    IF ~Has(o, "visa") THEN Exc(o, "AttributeError") ELSE Exc(o, "TypeError")

\* Mag.set_volt_limit
Mag_set_volt_limit(o, limit) == lims(o)

\* Mag.set_curr_limit
Mag_set_curr_limit(o, limit) == lims(o)

\* Mag.set_ramp_segments
Mag_set_ramp_segments(o, segs) == lims(o)

\* Mag.set_setpoints_list
Mag_set_setpoints_list(o, setpts) == lims(o)

\* Mag.set_ramps_list: reads self.field_unit_idx, then subscripts the method
\* self.field_unit.
Mag_set_ramps_list(o, ramps) ==
    IF ~Has(o, "field_unit_idx") THEN Exc(o, "AttributeError") ELSE Exc(o, "TypeError")

\* Mag.set_target
Mag_set_target(o, targ) ==
    IF ~Has(o, "field_unit_idx") THEN Exc(o, "AttributeError") ELSE Mag_field_unit(o)

\* Mag.set_quench_detect
Mag_set_quench_detect(o, enable) == visa_call(Assign(o, "quench_detect", enable))

\* Mag.set_zero
Mag_set_zero(o, enable) == Ok(Assign(o, "zero", enable), <<>>)

\* Mag.set_field_unit, for an integer unit_val
Mag_set_field_unit(o, unit_val) ==
    IF unit_val \notin {0, 1, 2} THEN Exc(o, "TypeError")
    ELSE IF unit_val < 2 THEN visa_call(o)
    ELSE Ok(Assign(o, "field_unit_idx", unit_val), <<unit_val>>)

\* Mag.set_time_unit, for an integer unit_val
Mag_set_time_unit(o, unit_val) ==
    IF unit_val \notin {0, 1} THEN Exc(o, "TypeError") ELSE visa_call(o)

\* Mag.set_pars: rebinds self.visa to the class vMag, then calls field_unit.
Mag_set_pars(o) == Mag_field_unit(Assign(o, "visa", "vMag"))

\* ProbeGui.set_mag_pars: self.mag.set_pars()
set_mag_pars(g, o) ==
    IF ~Has(g, "mag") THEN Exc(o, "AttributeError") ELSE Mag_set_pars(o)

\* ProbeGui.start_mag: set_mag_pars(), then self.toggle_mag_for_run(True),
\* a name ProbeGui does not define (the method is togle_mag_for_run).
start_mag(g, o) ==
    LET r == set_mag_pars(g, o)
    IN IF r.exc # "" THEN r ELSE Exc(r.o, "AttributeError")

\* ------------------------------------------------- source/detector stack
\* What a method that talks to the driver leaves behind.
Wired(r, ops) == [o |-> r.o, ret |-> r.ret, exc |-> r.exc, ops |-> ops]

Write(cmd) == <<"write", cmd>>

Query(cmd) == <<"query", cmd>>

\* vKeith.qarm, by measurement index
qarm(idx) ==
    CASE idx = 0 -> "SOUR:DCON:ARM?"
      [] idx = 1 -> "SOUR:DEL:ARM?"
      [] OTHER -> "SOUR:PDEL:ARM?"

\* Keith.arm_switch, by measurement index: the arm builder's name
arm_switch(idx) ==
    CASE idx = 0 -> "arm_diffcon"
      [] idx = 1 -> "arm_delta"
      [] idx = 2 -> "arm_pdelt"
      [] idx = 3 -> "arm_pdelt_stair"
      [] OTHER -> "arm_pdelt_log"

\* vKeith.format_cmd
format_cmd == ":FORM:ELEM RNUM, TST, SOUR, READ, AVOL; "

\* Keith.meas_type(idx): with no index it reads self.meas_type_idx and then
\* self.meas_type_switch, which is defined nowhere; with an index it reads
\* info.meas['mes'], a key the registry lacks.
Keith_meas_type(o, given) ==
    IF given THEN Exc(o, "KeyError") ELSE Exc(o, "AttributeError")

\* Keith.set_meas_type, for an integer value
Keith_set_meas_type(o, value) ==
    LET v == IF value \in KeithInfo.meas.keys THEN value ELSE KeithInfo.meas.def
    IN Keith_meas_type(Assign(o, "meas_type_idx", v), TRUE)

\* A call of a vKeith method through self.visa after the value is stored.
Keith_visa(o) == IF ~Has(o, "visa") THEN Exc(o, "AttributeError") ELSE Ok(o, <<>>)

\* Keith.set_compl_volt
Keith_set_compl_volt(o, volt) ==
    Keith_visa(Assign(o, "compl_volt", Clamp(KeithInfo.compl_volt, volt)))

\* Keith.set_compl_abort, for a boolean
Keith_set_compl_abort(o, enable) == Ok(Assign(o, "compl_abort", enable), <<>>)

\* Keith.set_source_range_type, for an integer value
Keith_set_source_range_type(o, value) ==
    LET t == KeithInfo.sour_range.typ
        v == IF value \in t.keys THEN value ELSE t.def
        r == Keith_visa(Assign(o, "source_range_type_idx", v))
    IN IF r.exc # "" THEN r ELSE Ok(r.o, <<v>>)

\* Keith.set_source_range, for an integer value
Keith_set_source_range(o, value) ==
    LET t == KeithInfo.sour_range
        v == IF value \in t.keys THEN value ELSE t.def
        r == Keith_visa(Assign(o, "source_range_idx", v))
    IN IF r.exc # "" THEN r ELSE Ok(r.o, <<v>>)

\* Keith.source_range_switch, by index: the range in amps as m * 10^e.
source_range_switch(idx) ==
    CASE idx \in {0, 3, 6} -> [m |-> 2, e |-> 3 * (idx \div 3) - 9]
      [] idx \in {1, 4, 7} -> [m |-> 20, e |-> 3 * (idx \div 3) - 9]
      [] idx \in {2, 5} -> [m |-> 200, e |-> 3 * (idx \div 3) - 9]
      [] OTHER -> [m |-> 100, e |-> -3]

\* floor(numpy.log10(r)), for a mantissa below 1000
Log10Floor(r) == r.e + (IF r.m >= 100 THEN 2 ELSE IF r.m >= 10 THEN 1 ELSE 0)

\* Keith.source_range_mult_switch: the keys and the power of ten of each
\* multiplier, 1e-9, 1e-6, 1e-3.
source_range_mult_switch == [k \in {-1, 0, 1} |-> 3 * k - 6]

\* val // 3 in curr_conv_mult and curr_conv_div
mult_idx(o) == Log10Floor(source_range_switch(o.source_range_idx)) \div 3

\* 10^n, for 0 <= n <= 6
Pow10(n) ==
    CASE n = 0 -> 1
      [] n = 3 -> 1000
      [] OTHER -> 1000000

\* Keith.curr_conv_mult(num): amps are counted in nA.
curr_conv_mult(o, num) ==
    IF ~Has(o, "source_range_idx") THEN Exc(o, "AttributeError")
    ELSE IF mult_idx(o) \notin DOMAIN source_range_mult_switch THEN Exc(o, "KeyError")
    ELSE Ok(o, <<num * Pow10(source_range_mult_switch[mult_idx(o)] + 9)>>)

\* Keith.curr_conv_div(num): num in nA; the quotient is returned as the
\* pair <<numerator, denominator>>.
curr_conv_div(o, num) ==
    IF ~Has(o, "source_range_idx") THEN Exc(o, "AttributeError")
    ELSE IF mult_idx(o) \notin DOMAIN source_range_mult_switch THEN Exc(o, "KeyError")
    ELSE Ok(o, <<<<num, Pow10(source_range_mult_switch[mult_idx(o)] + 9)>>>>)

\* keith.curr_conv_div(keith.curr_conv_mult(num))
curr_conv_round(o, num) ==
    LET a == curr_conv_mult(o, num)
    IN IF a.exc # "" THEN a ELSE curr_conv_div(o, a.ret[1])

\* Keith.set_filter_idx(ftype, meas_idx), for an integer ftype: the model
\* is fetched with self.meas_type(meas_idx) before anything is set.
Keith_set_filter_idx(o, ftype, given) == Keith_meas_type(o, given)

\* KeithInfo.volt_range: the keys of 'dic' and the default index.
volt_range == [keys |-> 2..6, def |-> 2]

\* key(dic, value) for the integers that equal a value of
\* KeithInfo.volt_range['dic'] (1 == 1.0, 10 == 10.0, 100 == 100.0).
volt_range_key(value) ==
    CASE value = 1 -> 4 [] value = 10 -> 5 [] value = 100 -> 6

\* Keith.set_volt_range, for an integer value: a value found among the
\* ranges is replaced by its key; any other integer is taken for a combobox
\* index and 2 is added; the index is stored before the driver is called.
Keith_set_volt_range(o, value) ==
    LET v == IF value \in {1, 10, 100} THEN volt_range_key(value)
             ELSE IF value + 2 \in volt_range.keys THEN value + 2
             ELSE volt_range.def
        r == Keith_visa(Assign(o, "volt_range_idx", v))
    IN IF r.exc # "" THEN r ELSE Ok(r.o, <<v>>)

\* Keith.arm
Keith_arm(o) ==
    IF ~Has(o, "visa") \/ ~Has(o, "arm_switch") \/ ~Has(o, "meas_type_idx")
    THEN Wired(Exc(o, "AttributeError"), <<>>)
    ELSE LET i == o.meas_type_idx
         IN Wired(Ok(o, <<"armed">>),
                  <<Write(format_cmd \o arm_switch(i)), Query(qarm(i)), Query(qarm(i))>>)

\* Keith.get_header_string(): its first statement is self.meas_type(None).
Keith_get_header_string(o) == Keith_meas_type(o, FALSE)

\* data_list[j:j+cols] for every j that is a multiple of cols
data_rows(data) ==
    [k \in 1..((Len(data) + 4) \div 5) |->
        SubSeq(data, 5 * (k - 1) + 1, IF 5 * k < Len(data) THEN 5 * k ELSE Len(data))]

\* data_list[j::cols] for j in range(cols)
data_cols(data) ==
    [j \in 1..5 |->
        [i \in 1..((Len(data) - j + 5) \div 5) |-> data[j + 5 * (i - 1)]]]

\* Keith.get_data, reply being the trace the instrument answers with: the
\* header is asked for after the trace is read and reshaped.
Keith_get_data(o, reply) ==
    IF ~Has(o, "visa") THEN Wired(Exc(o, "AttributeError"), <<>>)
    ELSE LET h == Keith_get_header_string(o)
             out == [header |-> h.ret, rows |-> data_rows(reply),
                     cols |-> data_cols(reply)]
         IN Wired(IF h.exc # "" THEN h ELSE Ok(o, <<out>>), <<Query("TRAC:DATA?")>>)

\* Keith.stop
Keith_stop(o) ==
    IF ~Has(o, "visa") THEN Wired(Exc(o, "AttributeError"), <<>>)
    ELSE Wired(Ok(o, <<>>), <<Write("SOUR:SWE:ABOR; CLE:IMM")>>)

\* Keith.run
Keith_run(o, reply) ==
    IF ~Has(o, "visa") THEN Wired(Exc(o, "AttributeError"), <<>>)
    ELSE LET a == Keith_arm(o)
             d == Keith_get_data(o, reply)
             s == Keith_stop(o)
             pre == <<Write("SOUR:SWE:ABOR")>> \o a.ops
             mid == pre \o <<<<"timeout", "10000">>, Write("INIT:IMM"), Query("*OPC?")>>
                        \o d.ops
         IN IF a.exc # "" THEN Wired(a, pre)
            ELSE IF d.exc # "" THEN Wired(d, mid)
            ELSE Wired(Ok(o, d.ret), mid \o s.ops)

\* --------------------------------------------------- temperature controller
\* Temp.set_rad_control / Temp.set_stage_control
Temp_set_control(o, loop, enable) == Ok(Assign(o, loop, enable), <<>>)

\* Temp.set_to_measure, for an integer
Temp_set_to_measure(o, measured) ==
    LET t == TempInfo.to_measure
        m == IF measured \in t.keys THEN measured ELSE t.def
    IN Ok(Assign(Assign(o, "to_measure_idx", m), "to_measure_str", t.dic[m]), <<m>>)

\* x in gen, for a generator holding the items s: the items up to and
\* including the first x are consumed, all of them when x is not among them.
Consume(s, x) ==
    LET hits == {i \in 1..Len(s) : s[i] = x}
    IN IF hits = {} THEN [found |-> FALSE, left |-> <<>>]
       ELSE LET k == CHOOSE i \in hits : \A j \in hits : i <= j
            IN [found |-> TRUE, left |-> SubSeq(s, k + 1, Len(s))]

\* The common body of Temp.set_setpoint, set_ramp and set_power, v being the
\* clamped value: self.outnames, a generator, is read first and the output
\* check consumes it; past the check the loop is chosen with
\* info.out.name[1], and info.out is a dict, which has no attribute name,
\* so neither loop's field is stored.
Temp_set_loop(o, v, output) ==
    IF ~Has(o, "outnames") THEN Exc(o, "AttributeError")
    ELSE LET c == Consume(o.outnames, output)
             o1 == Assign(o, "outnames", c.left)
         IN IF ~c.found THEN Ok(o1, <<>>) ELSE Exc(o1, "AttributeError")

\* Temp.set_setpoint(temp, output)
Temp_set_setpoint(o, t, output) == Temp_set_loop(o, Clamp(TempInfo.setpt, t), output)

\* Temp.set_ramp(rate, output)
Temp_set_ramp(o, rate, output) ==
    Temp_set_loop(o, IF rate = TempInfo.rate.also THEN rate
                     ELSE Clamp(TempInfo.rate, rate), output)

\* Temp.set_power(power, output)
Temp_set_power(o, power, output) ==
    Temp_set_loop(o, Clamp(TempInfo.power, power), output)

\* vTemp.query: self.thermo() calls the resource handle (or None).
vTemp_query == "TypeError"

\* Temp.ramp_status
Temp_ramp_status(o, output) ==
    IF ~Has(o, "visa") THEN Wired(Exc(o, "AttributeError"), <<>>)
    ELSE Wired(Exc(o, vTemp_query), <<>>)

\* Temp.measure: self.visa.query_temp is not a method of vTemp (it is qtemp).
Temp_measure(o) == Wired(Exc(o, "AttributeError"), <<>>)

\* Temp.run: its first call is self.set(), a method Temp does not have.
Temp_run(o, wait) == Wired(Exc(o, "AttributeError"), <<>>)

\* The three commands Temp.stop sends for one controlled loop.
StopOps(out) ==
    <<Write(<<"RAMP", out, 0, 0>>), Write(<<"RANGE", out, 1>>),
      Write(<<"OUTMODE", out, 1, out + 5, 1>>)>>

\* Temp.stop
Temp_stop(o) ==
    LET o1 == Assign(o, "running", FALSE)
        Loop(name, out, ops, rest) ==
            IF ~Has(o1, name) THEN Wired(Exc(o1, "AttributeError"), ops)
            ELSE IF ~o1[name] THEN rest
            ELSE IF ~Has(o1, "visa") THEN Wired(Exc(o1, "AttributeError"), ops)
            ELSE [rest EXCEPT !.ops = StopOps(out) \o @]
    IN Loop("rad_control", 1, <<>>,
            Loop("stage_control", 2, <<>>, Wired(Ok(o1, <<>>), <<>>)))

\* ------------------------------------------------------------ wire drivers
\* A pyvisa resource name, as rm.list_resources() returns it.
Asrl(com) == [bus |-> "ASRL", board |-> com, addr |-> com]

Gpib(addr) == [bus |-> "GPIB", board |-> 0, addr |-> addr]

\* str(n) in str(m), for 0 <= n, m < 100
DigitsIn(n, m) ==
    \/ n = m
    \/ m >= 10 /\ n < 10 /\ (n = m \div 10 \/ n = m % 10)

\* str(addr) in x, x being the name of resource r: "ASRL<com>::INSTR" or
\* "GPIB<board>::<addr>::INSTR"
StrIn(addr, r) ==
    IF r.bus = "ASRL" THEN DigitsIn(addr, r.board)
    ELSE DigitsIn(addr, r.board) \/ DigitsIn(addr, r.addr)

\* The driver's device handle: None, False or an opened resource.
NoHandle == [kind |-> "None"]

FalseHandle == [kind |-> "False"]

Opened == [kind |-> "Resource"]

\* Visa.__init__: the resource manager and the names the bus scan lists.
Visa_init(cls, scan) == [cls |-> cls, rm |-> TRUE, instruments |-> scan]

\* vMag.check_connected(com): (str(com) and 'ASRL') in x is 'ASRL' in x.
vMag_check_connected(d, com) ==
    Assign(d, "mag", IF \E r \in d.instruments : r.bus = "ASRL"
                     THEN Opened ELSE NoHandle)

\* vMag.__init__(address)
vMag_init(address, scan) ==
    vMag_check_connected(
        Assign(Assign(Visa_init("vMag", scan), "mag", NoHandle), "ramp_segs_cmd", ""),
        address)

\* vTemp.check_connected(gpib): (str(gpib) and 'GPIB') in x is 'GPIB' in x.
vTemp_check_connected(d, gpib) ==
    Assign(d, "thermo", IF \E r \in d.instruments : r.bus = "GPIB"
                        THEN Opened ELSE NoHandle)

\* vTemp.__init__(address)
vTemp_init(address, scan) ==
    vTemp_check_connected(Assign(Visa_init("vTemp", scan), "thermo", NoHandle),
                          address)

\* vKeith.check_connected(addr): no match stores False, not None.
vKeith_check_connected(d, addr) ==
    Assign(d, "source",
           IF \E r \in d.instruments : StrIn(addr, r) /\ r.bus = "GPIB"
           THEN Opened ELSE FalseHandle)

\* vKeith.__init__(address)
vKeith_init(address, scan) ==
    vKeith_check_connected(
        Assign(Assign(Visa_init("vKeith", scan), "source", NoHandle),
               "meter_connected", TRUE), address)

\* print(text)
Printed(text) == <<"print", text>>

\* A Python value on the wire: None, or the str pyvisa returns.
PyNone == [t |-> "None"]

PyStr(v) == [t |-> "str", v |-> v]

PyInt(v) == [t |-> "int", v |-> v]

\* Visa.write(instr, cmd): instr.write raises AttributeError on None and on
\* False, which is caught.
Visa_write(d, instr, cmd) ==
    IF instr.kind = "Resource" THEN Wired(Ok(d, <<>>), <<Write(cmd)>>)
    ELSE Wired(Ok(d, <<>>), <<Printed("Instrument is not connected")>>)

\* Visa.query(instr, cmd): returns out, None unless the resource replied.
Visa_query(d, instr, cmd, reply) ==
    IF instr.kind = "Resource"
    THEN Wired(Ok(d, <<PyStr(reply)>>), <<Query(cmd), Printed(reply)>>)
    ELSE Wired(Ok(d, <<PyNone>>),
               <<Printed("Instrument is not connected"), Printed("None")>>)

\* vMag.write(cmd)
vMag_write(d, cmd) ==
    IF d.mag.kind # "None" THEN Visa_write(d, d.mag, cmd)
    ELSE Wired(Ok(d, <<>>), <<Printed("No write--magnet not connected")>>)

\* vMag.query(cmd): falls off the end (None) when the handle is None.
vMag_query(d, cmd, reply) ==
    IF d.mag.kind # "None" THEN Visa_query(d, d.mag, cmd, reply)
    ELSE Wired(Ok(d, <<PyNone>>), <<Printed("No query--magnet not connected")>>)

\* vKeith.write(cmd)
vKeith_write(d, cmd) == Visa_write(d, d.source, cmd)

\* vKeith.query(cmd)
vKeith_query(d, cmd, reply) == Visa_query(d, d.source, cmd, reply)

\* vTemp.write(cmd)
vTemp_write(d, cmd) ==
    IF d.thermo.kind # "None" THEN Visa_write(d, d.thermo, cmd)
    ELSE Wired(Ok(d, <<>>),
               <<Printed("No write--temperature controller not connected")>>)

\* vTemp.query(cmd): the test calls the handle, self.thermo().
vTemp_query_cmd(d, cmd, reply) == Wired(Exc(d, vTemp_query), <<>>)

\* raise ValueError(...) in a driver guard: nothing is staged or sent.
Invalid(d) == Wired(Exc(d, "ValueError"), <<>>)

\* vMag.set_ramp_segs(segs): the command is kept, not sent.
vMag_set_ramp_segs(d, segs) ==
    IF segs < 1 THEN Invalid(d)
    ELSE Wired(Ok(Assign(d, "ramp_segs_cmd", "CONF:RAMP:RATE:SEG " \o ToString(segs)),
                  <<>>), <<>>)

\* vMag.set_rate(seg, rate, upbound, unit)
vMag_set_rate(d, seg, rate, upbound, unit) ==
    IF seg < 0 THEN Invalid(d)
    ELSE IF unit \notin {"curr", "field"} THEN Invalid(d)
    ELSE LET cmd == "CONF:RAMP:RATE:" \o unit \o " " \o ToString(seg) \o ","
                    \o ToString(rate) \o "," \o ToString(upbound)
         IN vMag_write(Assign(d, "rate_cmd", cmd), cmd)

\* vMag.set_volt_limit with the guard written limit <= 0, as its message
\* ('limit must be positive') would have it.
vMag_set_volt_limit_positive(d, limit) ==
    IF limit <= 0 THEN Invalid(d) ELSE vMag_write(d, "CONF:VOLT:LIM " \o ToString(limit))

\* vMag.set_volt_limit(limit)
vMag_set_volt_limit(d, limit) ==
    IF limit < 0 THEN Invalid(d) ELSE vMag_write(d, "CONF:VOLT:LIM " \o ToString(limit))

\* vMag.set_curr_limit(limit)
vMag_set_curr_limit(d, limit) ==
    IF limit < 0 THEN Invalid(d) ELSE vMag_write(d, "CONF:CURR:LIM " \o ToString(limit))

\* vMag.state_table
state_table ==
    [c \in 1..10 |->
        CASE c = 1 -> "RAMPING to target value"
          [] c = 2 -> "HOLDING at target value"
          [] c = 3 -> "PAUSED"
          [] c = 4 -> "Ramping in MANUAL UP mode"
          [] c = 5 -> "Ramping in MANUAL DOWN mode"
          [] c = 6 -> "ZEROING CURRENT"
          [] c = 7 -> "Quench detected"
          [] c = 8 -> "At ZERO current"
          [] c = 9 -> "Heating persistent switch"
          [] OTHER -> "Cooling persistent switch"]

\* dict[key] for a dict with int keys: a str or None key is never found.
Lookup(table, key) ==
    IF key.t = "int" /\ key.v \in DOMAIN table THEN <<table[key.v]>> ELSE <<>>

\* vMag.qstate(): self.state_table[self.query('STATE?')]
vMag_qstate(d, reply) ==
    LET q == vMag_query(d, "STATE?", reply)
        hit == Lookup(state_table, q.ret[1])
    IN IF hit = <<>> THEN Wired(Exc(d, "KeyError"), q.ops)
       ELSE Wired(Ok(d, hit), q.ops)

\* ------------------------------------------------------------ orchestrator
\* A Qt control: the properties the handlers set.
Widget ==
    [enabled |-> TRUE, readOnly |-> FALSE, blocked |-> FALSE, checkable |-> TRUE,
     value |-> 0]

\* kwind.signals_slots of ProbeGui.init_kwind: the controls of each group.
kwind_slots ==
    [combo |-> {"measureTypeCombobox", "unitsCombobox", "sourceRangeTypeCombobox",
                "sourceRangeCombobox", "meterRangeCombobox", "filterTypeCombobox"},
     field |-> {"GPIBSpinbox", "complianceSpinbox", "current1Spinbox",
                "current2Spinbox", "currStepSpinbox", "field4Spinbox",
                "rateSpinbox", "delaySpinbox", "pulseWidthSpinbox", "countSpinbox",
                "filterWindowSpinbox", "filterCountSpinbox"},
     button1 |-> {"armButton", "startButton"},
     button2 |-> {},
     checkbox |-> {"CABCheckbox", "lowMeasCheckbox", "filterCheckbox"}]

\* twind.signals_slots of ProbeGui.init_twind
twind_slots ==
    [combo |-> {"measuredTempCombobox", "radPowerCombobox", "stagePowerCombobox"},
     field |-> {"GPIBSpinbox", "radSetpointSpinbox", "radRampSpinbox",
                "stageSetpointSpinbox", "stageRampSpinbox"},
     button1 |-> {},
     button2 |-> {"setButton", "runButton"},
     checkbox |-> {"tMeasureCheckbox", "radControlCheckbox", "stageControlCheckbox"}]

\* for k in names: k.<prop>(v)
SetAll(ui, names, prop, v) ==
    [w \in DOMAIN ui |-> IF w \in names THEN [ui[w] EXCEPT ![prop] = v] ELSE ui[w]]

\* ProbeGui.toggle_keith_for_run(running)
toggle_keith_for_run(g, running) ==
    IF ~Has(g, "kwind") THEN Exc(g, "AttributeError")
    ELSE LET sl == g.kwind.signals_slots
             u1 == SetAll(g.kwind.ui, sl.combo, "enabled", ~running)
             u2 == SetAll(u1, sl.field, "readOnly", running)
             u3 == SetAll(u2, sl.button1, "blocked", running)
             u4 == SetAll(u3, sl.checkbox, "checkable", ~running)
         IN Ok(Assign([g EXCEPT !.kwind.ui = u4], "krunning", running), <<>>)

\* ProbeGui.toggle_temp_for_run(running): of the fields only GPIBSpinbox is
\* made read-only.
toggle_temp_for_run(g, running) ==
    IF ~Has(g, "twind") THEN Exc(g, "AttributeError")
    ELSE LET sl == g.twind.signals_slots
             u1 == SetAll(g.twind.ui, sl.combo, "enabled", ~running)
             u2 == SetAll(u1, sl.checkbox, "checkable", ~running)
             u3 == SetAll(u2, {"GPIBSpinbox"}, "readOnly", running)
         IN Ok(Assign([g EXCEPT !.twind.ui = u3], "trunning", running), <<>>)

\* What a handler leaves behind: the orchestrator, the controller, the
\* return value and the exception.
Both(g, r) == [g |-> g, o |-> r.o, ret |-> r.ret, exc |-> r.exc]

\* ProbeGui.set_keith_compliance(volt), volt given: the spinbox is handed
\* volt itself, the dictionary keith.compl_volt.
set_keith_compliance(g, k, volt) ==
    IF ~Has(g, "kwind") \/ ~Has(g, "keith") THEN Both(g, Exc(k, "AttributeError"))
    ELSE LET r == Keith_set_compl_volt(k, volt)
         IN IF r.exc # "" THEN Both(g, r)
            ELSE Both([g EXCEPT !.kwind.ui.complianceSpinbox.value = volt,
                                !.keith_ui_internal =
                                    Assign(@, "set_keith_compliance", r.o.compl_volt)],
                      Ok(r.o, <<>>))

\* ProbeGui.set_keith_curr1(curr): self.keith.meas_type(None) comes first.
set_keith_curr1(g, k, curr) ==
    IF ~Has(g, "kwind") \/ ~Has(g, "keith") THEN Both(g, Exc(k, "AttributeError"))
    ELSE Both(g, Keith_meas_type(k, FALSE))

\* ProbeGui.set_temp_rad_setpoint(setpt), setpt given: the spinbox is handed
\* what Temp.set_setpoint returned.
set_temp_rad_setpoint(g, t, setpt) ==
    IF ~Has(g, "temp") \/ ~Has(g, "twind") THEN Both(g, Exc(t, "AttributeError"))
    ELSE LET r == Temp_set_setpoint(t, setpt, "rad")
         IN IF r.exc # "" THEN Both(g, r)
            ELSE IF r.ret = <<>> THEN Both(g, Exc(r.o, "TypeError"))
            ELSE Both([g EXCEPT !.twind.ui.radSetpointSpinbox.value = r.ret[1],
                                !.temp_ui_internal =
                                    Assign(@, "set_temp_rad_setpoint", r.ret[1])],
                      Ok(r.o, <<>>))

\* ProbeGui.set_mag_volt_limit(limit), limit given
set_mag_volt_limit(g, m, limit) ==
    IF ~Has(g, "mag") \/ ~Has(g, "mwind") THEN Both(g, Exc(m, "AttributeError"))
    ELSE LET r == Mag_set_volt_limit(m, limit)
         IN IF r.exc # "" THEN Both(g, r)
            ELSE Both([g EXCEPT !.mwind.ui.voltLimitSpinbox.value = r.ret[1],
                                !.mag_ui_internal =
                                    Assign(@, "set_mag_volt_limit", r.ret[1])],
                      Ok(r.o, <<>>))

\* Temp.set_pars
Temp_set_pars(o) ==
    IF \E a \in {"visa", "rad_ramp", "rad_control", "rad_setpoint", "stage_ramp",
                 "stage_control", "stage_setpoint"} : ~Has(o, a)
    THEN Wired(Exc(o, "AttributeError"), <<>>)
    ELSE Wired(Ok(o, <<>>),
               <<Write(<<"RAMP", 1, IF o.rad_control THEN 1 ELSE 0, o.rad_ramp>>),
                 Write(<<"SETP", 1, o.rad_setpoint>>),
                 Write(<<"RAMP", 2, IF o.stage_control THEN 1 ELSE 0, o.stage_ramp>>),
                 Write(<<"SETP", 2, o.stage_setpoint>>)>>)

\* dict(d)[k] for a parameter tree; None (<<>>) is not subscriptable.
Sub(d, k) ==
    IF DOMAIN d = {} THEN "TypeError" ELSE IF ~Has(d, k) THEN "KeyError" ELSE ""

\* ProbeGui.load_keith_config(params): the first two handlers it replays;
\* set_keith_meas_type ends in Keith.set_meas_type, which raises.
load_keith_config(g, k, params) ==
    IF ~Has(params, "address") THEN Both(g, Exc(k, "KeyError"))
    ELSE LET a == set_keith_address(g, k, params.address)
         IN IF a.exc # "" THEN Both(g, a)
            ELSE IF ~Has(params, "measType") THEN Both(g, Exc(a.o, "KeyError"))
            ELSE Both(g, Keith_set_meas_type(a.o, params.measType))

\* The sub-sections get_keith_config reads from the loaded section.
KeithSections == {"diffcon", "delta", "pulseDelta", "pDeltStair", "pDeltLog"}

\* ProbeGui.get_keith_config(): self.config.params['Keithley'], its five
\* sub-sections, then self.keith.meas_type(0).
get_keith_config(g, k) ==
    LET params == g.config.params
    IN IF Sub(params, "Keithley") # "" THEN Both(g, Exc(k, Sub(params, "Keithley")))
       ELSE IF \E sec \in KeithSections : ~Has(params.Keithley, sec)
       THEN Both(g, Exc(k, "KeyError"))
       ELSE IF ~Has(g, "keith") THEN Both(g, Exc(k, "AttributeError"))
       ELSE Both(g, Keith_meas_type(k, TRUE))

\* ProbeGui.load_mag_config(params): set_mag_address raises.
load_mag_config(g, m, params) ==
    IF ~Has(params, "address") THEN Both(g, Exc(m, "KeyError"))
    ELSE Both(g, set_instr_address(g, "mag", m, params.address))

\* ProbeGui.get_mag_config(): the address and the target are copied, then
\* mag.fieldUnit is read, which Mag does not define.
get_mag_config(g, m) ==
    LET params == g.config.params
    IN IF Sub(params, "Magnet") # "" THEN Both(g, Exc(m, Sub(params, "Magnet")))
       ELSE IF ~Has(g, "mag") \/ ~Has(m, "_address") \/ ~Has(m, "target")
       THEN Both(g, Exc(m, "AttributeError"))
       ELSE Both([g EXCEPT !.config.params.Magnet =
                      Assign(Assign(@, "address", m._address), "target", m.target)],
                 Exc(m, "AttributeError"))

\* load_keith_config(params) followed by get_keith_config()
keith_config_round(g, k, params) ==
    LET l == load_keith_config(g, k, params)
    IN IF l.exc # "" THEN l ELSE get_keith_config(l.g, l.o)

\* load_mag_config(params) followed by get_mag_config()
mag_config_round(g, m, params) ==
    LET l == load_mag_config(g, m, params)
    IN IF l.exc # "" THEN l ELSE get_mag_config(l.g, l.o)

\* ProbeGui.set_keith_volt_range(value), value given: the combobox shows
\* idx - 2, the dictionary keeps idx.
set_keith_volt_range(g, k, value) ==
    IF ~Has(g, "kwind") \/ ~Has(g, "keith") THEN Both(g, Exc(k, "AttributeError"))
    ELSE LET r == Keith_set_volt_range(k, value)
         IN IF r.exc # "" THEN Both(g, r)
            ELSE Both([g EXCEPT !.kwind.ui.meterRangeCombobox.value = r.ret[1] - 2,
                                !.keith_ui_internal =
                                    Assign(@, "set_keith_volt_range", r.ret[1])],
                      Ok(r.o, <<>>))

\* for k, v in d.items(): k(v), for one entry: skipped when a setter before
\* it raised or the dictionary lacks it.
Replay(prev, d, name, r) ==
    IF prev.exc # "" \/ ~Has(d, name) THEN prev ELSE r

\* ProbeGui.update_keith_ui(block=False)
update_keith_ui(g, k) ==
    IF ~Has(g, "keith_ui_internal") THEN Both(g, Exc(k, "AttributeError"))
    ELSE LET d == g.keith_ui_internal
             a == Replay(Both(g, Ok(k, <<>>)), d, "set_keith_compliance",
                         set_keith_compliance(g, k, d.set_keith_compliance))
         IN Replay(a, d, "set_keith_volt_range",
                   set_keith_volt_range(a.g, a.o, d.set_keith_volt_range))

\* ProbeGui.update_temp_ui()
update_temp_ui(g, t) ==
    IF ~Has(g, "temp_ui_internal") THEN Both(g, Exc(t, "AttributeError"))
    ELSE LET d == g.temp_ui_internal
         IN Replay(Both(g, Ok(t, <<>>)), d, "set_temp_rad_setpoint",
                   set_temp_rad_setpoint(g, t, d.set_temp_rad_setpoint))

\* ProbeGui.update_mag_ui()
update_mag_ui(g, m) ==
    IF ~Has(g, "mag_ui_internal") THEN Both(g, Exc(m, "AttributeError"))
    ELSE LET d == g.mag_ui_internal
         IN Replay(Both(g, Ok(m, <<>>)), d, "set_mag_volt_limit",
                   set_mag_volt_limit(g, m, d.set_mag_volt_limit))

\* ProbeGui.update_from_config(file, instr): config.name is reset, then the
\* dispatch table reads self.kwind, self.twind and self.magwind (a name
\* assigned nowhere) before any file is loaded.
update_from_config(g) == Exc([g EXCEPT !.config.name = "None"], "AttributeError")

\* What a run handler leaves behind: orchestrator, controller, file system,
\* driver operations.
Ran(g, r, fs, ops) ==
    [g |-> g, o |-> r.o, fs |-> fs, ret |-> r.ret, exc |-> r.exc, ops |-> ops]

\* ProbeGui.start_keith(): the data text of the run is handed to
\* self.save.data.
start_keith(g, k, fs, reply) ==
    IF ~Has(g, "kwind") THEN Ran(g, Exc(k, "AttributeError"), fs, <<>>)
    ELSE LET t == toggle_keith_for_run(g, TRUE).o
             r == IF Has(g, "keith") THEN Keith_run(k, reply)
                  ELSE Wired(Exc(k, "AttributeError"), <<>>)
         IN IF r.exc # "" THEN Ran(t, r, fs, r.ops)
            ELSE LET u == toggle_keith_for_run(Assign(t, "kdata_str", r.ret[1]), FALSE).o
                     w == Save_data(u.save, fs, r.ret[1])
                 IN Ran([u EXCEPT !.save = w.o], Exc(r.o, w.exc), w.fs, r.ops)

\* ProbeGui.start_temp()
start_temp(g, t, fs, wait) ==
    IF ~Has(g, "twind") \/ ~Has(g, "temp") THEN Ran(g, Exc(t, "AttributeError"), fs, <<>>)
    ELSE LET p == Temp_set_pars(t)
             u == toggle_temp_for_run(g, TRUE).o
             r == Temp_run(p.o, wait)
         IN IF p.exc # "" THEN Ran(g, p, fs, p.ops)
            ELSE Ran(u, r, fs, p.ops \o r.ops)

\* ProbeGui.save_data_as(), name being what the file dialog returned
save_data_as(g, fs, name) ==
    LET w == Save_new(g.save, fs, name)
    IN Ran([g EXCEPT !.save = w.o], Exc(<<>>, w.exc), w.fs, <<>>)

\* ------------------------------------------------------------------ actions
Init ==
    /\ meas = NoObject
    /\ mag = Mag_init.o
    /\ temp = Temp_init.o
    /\ keith = Keith_init.o
    /\ gui = ProbeGui_init.o
    /\ wire = <<>>
    /\ call = Raised("ProbeGui.init_ui", 0, ProbeGui_init.exc)
    /\ visa = <<>>
    /\ disk = [f \in {"a.txt"} |-> <<"old">>]

\* The five constructors.
NewDiffCon == New("DiffCon")

NewDelta == New("Delta")

NewPDelta == New("PDelta")

NewPDeltaStair == New("PDeltaStair")

NewPDeltaLog == New("PDeltaLog")

\* The setters of the instance at hand, while it is followed, probed around
\* the bound of its class.
Followed == meas.cls # "" /\ meas.n < MaxCalls

Edges(f) == Probe(TestLim(meas.cls, f))

Above(f) == ProbeHi(TestLim(meas.cls, f))

SetCurr1 ==
    Followed /\ \E x \in Edges("curr1") : MeasCall("set_curr1", x, set_curr1(meas, x))

SetCurr2 ==
    Followed /\ \E x \in Edges("curr2") : MeasCall("set_curr2", x, set_curr2(meas, x))

SetCurrStep ==
    Followed /\ \E x \in Above("curr_step") : MeasCall("set_curr_step", x, set_curr_step(meas, x))

SetCurrDelta ==
    Followed /\ \E x \in Above("curr_delta") : MeasCall("set_curr_delta", x, set_curr_delta(meas, x))

SetNumPoints ==
    Followed /\ \E x \in Above("points") : MeasCall("set_num_points", x, set_num_points(meas, x))

SetNumSweeps ==
    Followed /\ \E x \in Above("sweeps") : MeasCall("set_num_sweeps", x, set_num_sweeps(meas, x))

SetMeasRate ==
    Followed /\ \E x \in Above("rate") : MeasCall("set_meas_rate", x, set_meas_rate(meas, x))

SetMeasDelay ==
    Followed /\ \E x \in Above("delay") : MeasCall("set_meas_delay", x, set_meas_delay(meas, x))

SetPulseWidth ==
    Followed /\ \E x \in Above("width") : MeasCall("set_pulse_width", x, set_pulse_width(meas, x))

SetFilterWindow ==
    Followed /\ \E x \in Above("fwindow") : MeasCall("set_filter_window", x, set_filter_window(meas, x))

SetFilterCount ==
    Followed /\ \E x \in Above("fcount") : MeasCall("set_filter_count", x, set_filter_count(meas, x))

SetFilterIdx ==
    Followed /\ \E x \in {0, 1, 1 + Slack} :
                   MeasCall("set_filter_idx", x, set_filter_idx(meas, x))

Next ==
    \/ NewDiffCon \/ NewDelta \/ NewPDelta \/ NewPDeltaStair \/ NewPDeltaLog
    \/ SetCurr1 \/ SetCurr2 \/ SetCurrStep \/ SetCurrDelta
    \/ SetNumPoints \/ SetNumSweeps \/ SetMeasRate \/ SetMeasDelay
    \/ SetPulseWidth \/ SetFilterIdx \/ SetFilterWindow \/ SetFilterCount

Spec == Init /\ [][Next]_vars

\* The staircase models with small currents (uA), so that spans the step
\* does not divide, in both directions, occur.
SmallCurr == (0 - MaxCurr)..MaxCurr

SmallStep == 0..MaxCurr

StairCurr1 ==
    meas.cls # "" /\ \E x \in SmallCurr : MeasCall("set_curr1", x, set_curr1(meas, x))

StairCurr2 ==
    meas.cls # "" /\ \E x \in SmallCurr : MeasCall("set_curr2", x, set_curr2(meas, x))

StairCurrStep ==
    meas.cls # "" /\ \E x \in SmallStep : MeasCall("set_curr_step", x, set_curr_step(meas, x))

NextSweep ==
    \/ NewDiffCon \/ NewPDeltaStair
    \/ StairCurr1 \/ StairCurr2 \/ StairCurrStep

SpecSweep == Init /\ [][NextSweep]_vars

\* ------------------------------------------------------- magnet controller
\* limits.MagInfo().field['lim'][0], the bound in kilogauss, as a range.
MagField == [lo |-> -30, hi |-> 30, def |-> 0]

\* mag.<op>(x): r is what the method leaves behind.
MagCall(op, x, r) ==
    /\ mag' = r.o
    /\ call' = [op |-> op, arg |-> x, ret |-> r.ret, exc |-> r.exc]
    /\ wire' = <<>>
    /\ UNCHANGED <<meas, temp, keith, gui, visa, disk>>

\* The magnet bounds as documented: voltage limit in mV, current limit in
\* 0.01 A, field in kilogauss.
DocVolt == [lo |-> 1, hi |-> 6000, def |-> 550]

DocCurr == [lo |-> 0, hi |-> 3937, def |-> 3937]

DocField == [lo |-> -70, hi |-> 70, def |-> 0]

\* The lists handed to the list setters: up to MaxList entries, in or out of
\* the field bound (the code's and the documented one), in any order.
ListVals == {-1, 0, DocField.hi + Slack}

Lists == UNION {[1..n -> ListVals] : n \in 0..MaxList}

MagSetVoltLimit ==
    \E x \in Probe(MagInfo.volt) \cup Probe(DocVolt) :
        MagCall("Mag.set_volt_limit", x, Mag_set_volt_limit(mag, x))

MagSetCurrLimit ==
    \E x \in Probe(MagInfo.curr) \cup Probe(DocCurr) :
        MagCall("Mag.set_curr_limit", x, Mag_set_curr_limit(mag, x))

MagSetRampSegments ==
    \E x \in Probe(MagInfo.seg) :
        MagCall("Mag.set_ramp_segments", x, Mag_set_ramp_segments(mag, x))

MagSetSetpointsList ==
    \E x \in Lists :
        MagCall("Mag.set_setpoints_list", x, Mag_set_setpoints_list(mag, x))

MagSetRampsList ==
    \E x \in Lists : MagCall("Mag.set_ramps_list", x, Mag_set_ramps_list(mag, x))

MagSetTarget ==
    \E x \in Probe(MagField) : MagCall("Mag.set_target", x, Mag_set_target(mag, x))

MagSetQuenchDetect ==
    \E x \in BOOLEAN :
        MagCall("Mag.set_quench_detect", x, Mag_set_quench_detect(mag, x))

MagSetZero ==
    \E x \in BOOLEAN : MagCall("Mag.set_zero", x, Mag_set_zero(mag, x))

MagSetFieldUnit ==
    \E x \in 0..(2 + Slack) :
        MagCall("Mag.set_field_unit", x, Mag_set_field_unit(mag, x))

MagSetTimeUnit ==
    \E x \in 0..(1 + Slack) :
        MagCall("Mag.set_time_unit", x, Mag_set_time_unit(mag, x))

MagSetPars == MagCall("Mag.set_pars", 0, Mag_set_pars(mag))

GuiSetMagPars == MagCall("ProbeGui.set_mag_pars", 0, set_mag_pars(gui, mag))

GuiStartMag == MagCall("ProbeGui.start_mag", 0, start_mag(gui, mag))

NextMag ==
    \/ MagSetVoltLimit \/ MagSetCurrLimit \/ MagSetRampSegments
    \/ MagSetSetpointsList \/ MagSetRampsList \/ MagSetTarget
    \/ MagSetQuenchDetect \/ MagSetZero \/ MagSetFieldUnit \/ MagSetTimeUnit
    \/ MagSetPars \/ GuiSetMagPars \/ GuiStartMag

SpecMag == Init /\ [][NextMag]_vars

\* ------------------------------------------------------------- addresses
\* obj.address = x, on each controller
KeithAssignAddress ==
    /\ \E x \in Probe(KeithInfo.addr) :
          LET r == address_set(keith, x)
          IN /\ keith' = r.o
             /\ call' = [op |-> "Keith.address", arg |-> x, ret |-> r.ret, exc |-> r.exc]
    /\ UNCHANGED <<meas, mag, temp, gui, wire, visa, disk>>

TempAssignAddress ==
    /\ \E x \in Probe(TempInfo.addr) :
          LET r == address_set(temp, x)
          IN /\ temp' = r.o
             /\ call' = [op |-> "Temp.address", arg |-> x, ret |-> r.ret, exc |-> r.exc]
    /\ UNCHANGED <<meas, mag, keith, gui, wire, visa, disk>>

MagAssignAddress ==
    /\ \E x \in Probe(MagInfo.addr) :
          LET r == address_set(mag, x)
          IN /\ mag' = r.o
             /\ call' = [op |-> "Mag.address", arg |-> x, ret |-> r.ret, exc |-> r.exc]
    /\ UNCHANGED <<meas, temp, keith, gui, wire, visa, disk>>

\* obj.set_address(x), on each controller
KeithSetAddress ==
    /\ \E x \in Probe(KeithInfo.addr) :
          LET r == Keith_set_address(keith, x)
          IN /\ keith' = r.o
             /\ call' = [op |-> "Keith.set_address", arg |-> x, ret |-> r.ret,
                         exc |-> r.exc]
    /\ UNCHANGED <<meas, mag, temp, gui, wire, visa, disk>>

TempSetAddress ==
    /\ \E x \in Probe(TempInfo.addr) :
          LET r == super_set_address(temp, x)
          IN /\ temp' = r.o
             /\ call' = [op |-> "Temp.set_address", arg |-> x, ret |-> r.ret,
                         exc |-> r.exc]
    /\ UNCHANGED <<meas, mag, keith, gui, wire, visa, disk>>

MagSetAddress ==
    /\ \E x \in Probe(MagInfo.addr) :
          LET r == super_set_address(mag, x)
          IN /\ mag' = r.o
             /\ call' = [op |-> "Mag.set_address", arg |-> x, ret |-> r.ret,
                         exc |-> r.exc]
    /\ UNCHANGED <<meas, temp, keith, gui, wire, visa, disk>>

\* The orchestrator's three address handlers
GuiSetKeithAddress ==
    /\ \E x \in Probe(KeithInfo.addr) :
          LET r == set_keith_address(gui, keith, x)
          IN /\ keith' = r.o
             /\ call' = [op |-> "ProbeGui.set_keith_address", arg |-> x,
                         ret |-> r.ret, exc |-> r.exc]
    /\ UNCHANGED <<meas, mag, temp, gui, wire, visa, disk>>

GuiSetTempAddress ==
    /\ \E x \in Probe(TempInfo.addr) :
          LET r == set_instr_address(gui, "temp", temp, x)
          IN /\ temp' = r.o
             /\ call' = [op |-> "ProbeGui.set_temp_address", arg |-> x,
                         ret |-> r.ret, exc |-> r.exc]
    /\ UNCHANGED <<meas, mag, keith, gui, wire, visa, disk>>

GuiSetMagAddress ==
    /\ \E x \in Probe(MagInfo.addr) :
          LET r == set_instr_address(gui, "mag", mag, x)
          IN /\ mag' = r.o
             /\ call' = [op |-> "ProbeGui.set_mag_address", arg |-> x,
                         ret |-> r.ret, exc |-> r.exc]
    /\ UNCHANGED <<meas, temp, keith, gui, wire, visa, disk>>

NextAddr ==
    \/ KeithAssignAddress \/ TempAssignAddress \/ MagAssignAddress
    \/ KeithSetAddress \/ TempSetAddress \/ MagSetAddress
    \/ GuiSetKeithAddress \/ GuiSetTempAddress \/ GuiSetMagAddress

SpecAddr == Init /\ [][NextAddr]_vars

\* --------------------------------------------------- source/detector stack
\* keith.<op>(x): r is what the method leaves behind, its driver operations
\* included.
KeithCall(op, x, r, ops) ==
    /\ keith' = r.o
    /\ call' = [op |-> op, arg |-> x, ret |-> r.ret, exc |-> r.exc]
    /\ wire' = ops
    /\ UNCHANGED <<meas, mag, temp, gui, visa, disk>>

KeithSetMeasType ==
    \E x \in 0..(4 + Slack) :
        KeithCall("Keith.set_meas_type", x, Keith_set_meas_type(keith, x), <<>>)

KeithSetComplVolt ==
    \E x \in ProbeHi(KeithInfo.compl_volt) :
        KeithCall("Keith.set_compl_volt", x, Keith_set_compl_volt(keith, x), <<>>)

KeithSetComplAbort ==
    \E x \in BOOLEAN :
        KeithCall("Keith.set_compl_abort", x, Keith_set_compl_abort(keith, x), <<>>)

KeithSetSourceRangeType ==
    \E x \in 0..(1 + Slack) :
        KeithCall("Keith.set_source_range_type", x,
                  Keith_set_source_range_type(keith, x), <<>>)

KeithSetSourceRange ==
    \E x \in 0..(8 + Slack) :
        KeithCall("Keith.set_source_range", x, Keith_set_source_range(keith, x), <<>>)

\* The displayed values the conversions are applied to.
Shown == {0, 1, 15}

KeithCurrConvMult ==
    \E x \in Shown :
        KeithCall("Keith.curr_conv_mult", x, curr_conv_mult(keith, x), <<>>)

KeithCurrConvDiv ==
    \E x \in Shown :
        KeithCall("Keith.curr_conv_div", x, curr_conv_div(keith, x), <<>>)

KeithCurrConvRound ==
    \E x \in Shown :
        KeithCall("Keith.curr_conv_div(curr_conv_mult)", x,
                  curr_conv_round(keith, x), <<>>)

KeithSetFilterIdx ==
    \E x \in 0..(1 + Slack), given \in BOOLEAN :
        KeithCall("Keith.set_filter_idx", <<x, given>>,
                  Keith_set_filter_idx(keith, x, given), <<>>)

KeithArm ==
    LET r == Keith_arm(keith) IN KeithCall("Keith.arm", 0, r, r.ops)

\* The trace of n readings the instrument holds: 5 values per reading.
Trace(n) == [i \in 1..(5 * n) |-> i]

KeithRun ==
    \E n \in 1..MaxList :
        LET r == Keith_run(keith, Trace(n)) IN KeithCall("Keith.run", Trace(n), r, r.ops)

KeithStop ==
    LET r == Keith_stop(keith) IN KeithCall("Keith.stop", 0, r, r.ops)

KeithGetData ==
    \E n \in 1..MaxList :
        LET r == Keith_get_data(keith, Trace(n))
        IN KeithCall("Keith.get_data", Trace(n), r, r.ops)

NextKeith ==
    \/ KeithSetMeasType \/ KeithSetComplVolt \/ KeithSetComplAbort
    \/ KeithSetSourceRangeType \/ KeithSetSourceRange
    \/ KeithArm \/ KeithRun \/ KeithStop \/ KeithGetData
    \/ KeithCurrConvMult \/ KeithCurrConvDiv \/ KeithCurrConvRound
    \/ KeithSetFilterIdx

SpecKeith == Init /\ [][NextKeith]_vars

\* --------------------------------------------------- temperature controller
\* temp.<op>(x): r is what the method leaves behind.
TempCall(op, x, r, ops) ==
    /\ temp' = r.o
    /\ call' = [op |-> op, arg |-> x, ret |-> r.ret, exc |-> r.exc]
    /\ wire' = ops
    /\ UNCHANGED <<meas, mag, keith, gui, visa, disk>>

\* The pause main.py hands to Temp.run, in seconds.
Wait == 10

TempSetRadControl ==
    \E x \in BOOLEAN :
        TempCall("Temp.set_rad_control", x, Temp_set_control(temp, "rad_control", x),
                 <<>>)

TempSetStageControl ==
    \E x \in BOOLEAN :
        TempCall("Temp.set_stage_control", x,
                 Temp_set_control(temp, "stage_control", x), <<>>)

TempSetToMeasure ==
    \E x \in 0..(1 + Slack) :
        TempCall("Temp.set_to_measure", x, Temp_set_to_measure(temp, x), <<>>)

\* The output names handed to the loop setters.
Outputs == {"rad", "stage", "out3"}

TempSetSetpoint ==
    \E x \in Probe(TempInfo.setpt), out \in Outputs :
        TempCall("Temp.set_setpoint", <<x, out>>, Temp_set_setpoint(temp, x, out), <<>>)

TempSetRamp ==
    \E x \in Probe(TempInfo.rate), out \in Outputs :
        TempCall("Temp.set_ramp", <<x, out>>, Temp_set_ramp(temp, x, out), <<>>)

TempSetPower ==
    \E x \in Probe(TempInfo.power), out \in Outputs :
        TempCall("Temp.set_power", <<x, out>>, Temp_set_power(temp, x, out), <<>>)

TempMeasure ==
    LET r == Temp_measure(temp) IN TempCall("Temp.measure", 0, r, r.ops)

TempRampStatus ==
    \E x \in {1, 2} :
        LET r == Temp_ramp_status(temp, x) IN TempCall("Temp.ramp_status", x, r, r.ops)

TempRun ==
    LET r == Temp_run(temp, Wait) IN TempCall("Temp.run", Wait, r, r.ops)

TempStop ==
    LET r == Temp_stop(temp) IN TempCall("Temp.stop", 0, r, r.ops)

NextTemp ==
    \/ TempSetRadControl \/ TempSetStageControl \/ TempSetToMeasure
    \/ TempSetSetpoint \/ TempSetRamp \/ TempSetPower
    \/ TempMeasure \/ TempRampStatus \/ TempRun \/ TempStop

SpecTemp == Init /\ [][NextTemp]_vars

\* ------------------------------------------------------------ wire drivers
\* The resource lists a bus scan may return: the magnet's serial port and
\* the two GPIB instruments, each present or not.
Scans == SUBSET {Asrl(2), Gpib(11), Gpib(12)}

\* The commands handed to write and query, and the replies of an instrument.
Cmds == {"*RST", "STATE?"}

Replies == {"0", "1", "7", "10", "11"}

\* d.<op>(x), d being the driver at hand
VisaCall(op, x, r) ==
    /\ visa' = r.o
    /\ call' = [op |-> op, arg |-> x, ret |-> r.ret, exc |-> r.exc]
    /\ wire' = r.ops
    /\ UNCHANGED <<meas, mag, temp, keith, gui, disk>>

\* d = vMag(address) and the like, after a bus scan
NewVMag ==
    \E scan \in Scans :
        VisaCall("vMag", MagInfo.addr.def,
                 Wired(Ok(vMag_init(MagInfo.addr.def, scan), <<>>), <<>>))

NewVKeith ==
    \E scan \in Scans :
        VisaCall("vKeith", KeithInfo.addr.def,
                 Wired(Ok(vKeith_init(KeithInfo.addr.def, scan), <<>>), <<>>))

NewVTemp ==
    \E scan \in Scans :
        VisaCall("vTemp", TempInfo.addr.def,
                 Wired(Ok(vTemp_init(TempInfo.addr.def, scan), <<>>), <<>>))

IsDriver(cls) == Has(visa, "cls") /\ visa.cls = cls

VMagWrite ==
    IsDriver("vMag") /\ \E c \in Cmds : VisaCall("vMag.write", c, vMag_write(visa, c))

VMagQuery ==
    /\ IsDriver("vMag")
    /\ \E c \in Cmds, y \in Replies :
          VisaCall("vMag.query", c, vMag_query(visa, c, y))

VMagQstate ==
    /\ IsDriver("vMag")
    /\ \E y \in Replies : VisaCall("vMag.qstate", y, vMag_qstate(visa, y))

VKeithWrite ==
    /\ IsDriver("vKeith")
    /\ \E c \in Cmds : VisaCall("vKeith.write", c, vKeith_write(visa, c))

VKeithQuery ==
    /\ IsDriver("vKeith")
    /\ \E c \in Cmds, y \in Replies :
          VisaCall("vKeith.query", c, vKeith_query(visa, c, y))

VTempWrite ==
    /\ IsDriver("vTemp")
    /\ \E c \in Cmds : VisaCall("vTemp.write", c, vTemp_write(visa, c))

VTempQuery ==
    /\ IsDriver("vTemp")
    /\ \E c \in Cmds, y \in Replies :
          VisaCall("vTemp.query", c, vTemp_query_cmd(visa, c, y))

\* The segment counts, segment indices and limits handed to the magnet
\* driver, on both sides of each guard, and the units of set_rate.
SmallInts == -1..2

RateUnits == {"curr", "field", "volt"}

VMagSetRampSegs ==
    /\ IsDriver("vMag")
    /\ \E n \in SmallInts :
          VisaCall("vMag.set_ramp_segs", n, vMag_set_ramp_segs(visa, n))

VMagSetRate ==
    /\ IsDriver("vMag")
    /\ \E seg \in SmallInts, unit \in RateUnits :
          VisaCall("vMag.set_rate", <<seg, unit>>, vMag_set_rate(visa, seg, 1, 2, unit))

VMagSetVoltLimit ==
    /\ IsDriver("vMag")
    /\ \E x \in SmallInts :
          VisaCall("vMag.set_volt_limit", x, vMag_set_volt_limit(visa, x))

VMagSetCurrLimit ==
    /\ IsDriver("vMag")
    /\ \E x \in SmallInts :
          VisaCall("vMag.set_curr_limit", x, vMag_set_curr_limit(visa, x))

NextVisa ==
    \/ NewVMag \/ NewVKeith \/ NewVTemp
    \/ VMagWrite \/ VMagQuery \/ VMagQstate
    \/ VMagSetRampSegs \/ VMagSetRate \/ VMagSetVoltLimit \/ VMagSetCurrLimit
    \/ VKeithWrite \/ VKeithQuery \/ VTempWrite \/ VTempQuery

SpecVisa == Init /\ [][NextVisa]_vars

\* ------------------------------------------------------------ orchestrator
\* A handler that touches the orchestrator alone
GuiCall(op, x, r) ==
    /\ gui' = r.o
    /\ call' = [op |-> op, arg |-> x, ret |-> r.ret, exc |-> r.exc]
    /\ wire' = <<>>
    /\ UNCHANGED <<meas, mag, temp, keith, visa, disk>>

\* A handler that forwards to the source/detector stack
GuiKeithCall(op, x, r) ==
    /\ gui' = r.g
    /\ keith' = r.o
    /\ call' = [op |-> op, arg |-> x, ret |-> r.ret, exc |-> r.exc]
    /\ wire' = <<>>
    /\ UNCHANGED <<meas, mag, temp, visa, disk>>

\* A handler that forwards to the temperature controller
GuiTempCall(op, x, r) ==
    /\ gui' = r.g
    /\ temp' = r.o
    /\ call' = [op |-> op, arg |-> x, ret |-> r.ret, exc |-> r.exc]
    /\ wire' = <<>>
    /\ UNCHANGED <<meas, mag, keith, visa, disk>>

\* A handler that forwards to the magnet controller
GuiMagCall(op, x, r) ==
    /\ gui' = r.g
    /\ mag' = r.o
    /\ call' = [op |-> op, arg |-> x, ret |-> r.ret, exc |-> r.exc]
    /\ wire' = <<>>
    /\ UNCHANGED <<meas, temp, keith, visa, disk>>

GuiToggleKeithForRun ==
    \E b \in BOOLEAN :
        GuiCall("ProbeGui.toggle_keith_for_run", b, toggle_keith_for_run(gui, b))

GuiToggleTempForRun ==
    \E b \in BOOLEAN :
        GuiCall("ProbeGui.toggle_temp_for_run", b, toggle_temp_for_run(gui, b))

GuiSetKeithCompliance ==
    \E x \in Probe(KeithInfo.compl_volt) :
        GuiKeithCall("ProbeGui.set_keith_compliance", x,
                     set_keith_compliance(gui, keith, x))

GuiSetKeithCurr1 ==
    \E x \in Probe(DeltaInfo.curr1) :
        GuiKeithCall("ProbeGui.set_keith_curr1", x, set_keith_curr1(gui, keith, x))

GuiSetTempRadSetpoint ==
    \E x \in Probe(TempInfo.setpt) :
        GuiTempCall("ProbeGui.set_temp_rad_setpoint", x,
                    set_temp_rad_setpoint(gui, temp, x))

GuiSetMagVoltLimit ==
    \E x \in Probe(MagInfo.volt) \cup Probe(DocVolt) :
        GuiMagCall("ProbeGui.set_mag_volt_limit", x, set_mag_volt_limit(gui, mag, x))

\* The 'Keithley' sections handed to load_keith_config: the address in and
\* out of range, the differential-conductance start current likewise.
KeithTrees ==
    {[address |-> a, measType |-> 0, complianceVolt |-> 100,
      diffCon |-> [startCurrent |-> c]] :
        a \in {KeithInfo.addr.def, KeithInfo.addr.hi + Slack}, c \in {0, 1}}

\* The 'Magnet' sections handed to load_mag_config.
MagTrees ==
    {[address |-> a, target |-> t, voltLimit |-> DocVolt.def] :
        a \in {MagInfo.addr.def, MagInfo.addr.hi + Slack}, t \in {0, 1}}

GuiLoadKeithConfig ==
    \E tree \in KeithTrees :
        GuiKeithCall("ProbeGui.load_keith_config", tree,
                     load_keith_config(gui, keith, tree))

GuiGetKeithConfig ==
    GuiKeithCall("ProbeGui.get_keith_config", 0, get_keith_config(gui, keith))

GuiKeithConfigRound ==
    \E tree \in KeithTrees :
        GuiKeithCall("ProbeGui.get_keith_config(load_keith_config)", tree,
                     keith_config_round(gui, keith, tree))

GuiLoadMagConfig ==
    \E tree \in MagTrees :
        GuiMagCall("ProbeGui.load_mag_config", tree, load_mag_config(gui, mag, tree))

GuiGetMagConfig ==
    GuiMagCall("ProbeGui.get_mag_config", 0, get_mag_config(gui, mag))

GuiMagConfigRound ==
    \E tree \in MagTrees :
        GuiMagCall("ProbeGui.get_mag_config(load_mag_config)", tree,
                   mag_config_round(gui, mag, tree))

\* The values handed to the voltmeter range setters: combobox indices,
\* stored range indices and values outside both.
MeterRanges == 0..(6 + Slack)

GuiSetKeithVoltRange ==
    \E x \in MeterRanges :
        GuiKeithCall("ProbeGui.set_keith_volt_range", x,
                     set_keith_volt_range(gui, keith, x))

KeithSetVoltRange ==
    \E x \in MeterRanges :
        GuiKeithCall("Keith.set_volt_range", x,
                     Both(gui, Keith_set_volt_range(keith, x)))

GuiUpdateKeithUi == GuiKeithCall("ProbeGui.update_keith_ui", 0, update_keith_ui(gui, keith))

GuiUpdateTempUi == GuiTempCall("ProbeGui.update_temp_ui", 0, update_temp_ui(gui, temp))

GuiUpdateMagUi == GuiMagCall("ProbeGui.update_mag_ui", 0, update_mag_ui(gui, mag))

GuiUpdateFromConfig ==
    GuiCall("ProbeGui.update_from_config", 0, update_from_config(gui))

\* What the save dialog may return: cancelled, or one of two paths.
Names == {<<"", "">>, <<"a.txt", "TXT (*.txt)">>, <<"b.txt", "TXT (*.txt)">>}

\* The texts handed to the data writer.
Texts == {"header", "data"}

\* A handler or call that touches the orchestrator's Save and the files
FileCall(op, x, r) ==
    /\ gui' = r.g
    /\ disk' = r.fs
    /\ call' = [op |-> op, arg |-> x, ret |-> r.ret, exc |-> r.exc]
    /\ wire' = <<>>
    /\ UNCHANGED <<meas, mag, temp, keith, visa>>

GuiSaveDataAs ==
    \E name \in Names :
        FileCall("ProbeGui.save_data_as", name, save_data_as(gui, disk, name))

\* self.save.header(text) and self.save.data(text)
SaveHeader ==
    \E text \in Texts :
        LET w == Save_header(gui.save, disk, text)
        IN FileCall("Save.header", text,
                    [g |-> [gui EXCEPT !.save = w.o], fs |-> w.fs, ret |-> w.ret,
                     exc |-> w.exc])

SaveData ==
    \E text \in Texts :
        LET w == Save_data(gui.save, disk, text)
        IN FileCall("Save.data", text,
                    [g |-> [gui EXCEPT !.save = w.o], fs |-> w.fs, ret |-> w.ret,
                     exc |-> w.exc])

GuiStartKeith ==
    \E n \in 1..MaxList :
        LET r == start_keith(gui, keith, disk, Trace(n))
        IN /\ gui' = r.g
           /\ keith' = r.o
           /\ disk' = r.fs
           /\ wire' = r.ops
           /\ call' = [op |-> "ProbeGui.start_keith", arg |-> Trace(n),
                       ret |-> r.ret, exc |-> r.exc]
           /\ UNCHANGED <<meas, mag, temp, visa>>

GuiStartTemp ==
    LET r == start_temp(gui, temp, disk, Wait)
    IN /\ gui' = r.g
       /\ temp' = r.o
       /\ disk' = r.fs
       /\ wire' = r.ops
       /\ call' = [op |-> "ProbeGui.start_temp", arg |-> Wait, ret |-> r.ret,
                   exc |-> r.exc]
       /\ UNCHANGED <<meas, mag, keith, visa>>

NextGui ==
    \/ GuiToggleKeithForRun \/ GuiToggleTempForRun
    \/ GuiSetKeithCompliance \/ GuiSetKeithCurr1
    \/ GuiSetTempRadSetpoint \/ GuiSetMagVoltLimit
    \/ GuiLoadKeithConfig \/ GuiGetKeithConfig \/ GuiKeithConfigRound
    \/ GuiLoadMagConfig \/ GuiGetMagConfig \/ GuiMagConfigRound
    \/ GuiUpdateFromConfig
    \/ GuiSetKeithVoltRange \/ KeithSetVoltRange
    \/ GuiUpdateKeithUi \/ GuiUpdateTempUi \/ GuiUpdateMagUi
    \/ GuiSaveDataAs \/ SaveHeader \/ SaveData \/ GuiStartKeith \/ GuiStartTemp

SpecGui == Init /\ [][NextGui]_vars

\* ------------------------------------------------------------------ claims
\* C1: Mag.set_volt_limit and Mag.set_curr_limit store and return the input
\* when it lies within the documented bound (0.001..6 V, 0..39.37 A) and
\* store and return the documented default otherwise.
C1_LimitSettersClamp ==
    /\ call.op = "Mag.set_volt_limit" =>
          /\ call.exc = ""
          /\ Has(mag, "volt_limit")
          /\ mag.volt_limit = Clamp(DocVolt, call.arg)
          /\ call.ret = <<mag.volt_limit>>
    /\ call.op = "Mag.set_curr_limit" =>
          /\ call.exc = ""
          /\ Has(mag, "curr_limit")
          /\ mag.curr_limit = Clamp(DocCurr, call.arg)
          /\ call.ret = <<mag.curr_limit>>

\* The numeric fields of a measurement-type model: registry entry, attribute.
NumericFields ==
    {<<"curr1", "curr1">>, <<"curr2", "curr2">>, <<"curr_step", "curr_step">>,
     <<"curr_delta", "curr_delta">>, <<"points", "num_points">>,
     <<"rate", "meas_rate">>, <<"rate", "cycle_int">>, <<"rate", "cycle_time">>,
     <<"delay", "meas_delay">>, <<"width", "pulse_width">>,
     <<"sweeps", "num_sweeps">>, <<"fwindow", "filter_window">>,
     <<"fcount", "filter_count">>}

\* C2: on each of the five measurement-type models, construction and every
\* setter call return normally and leave every stored numeric field within
\* the bound its registry gives.
C2_FieldsWithinBounds ==
    meas.cls # "" =>
        /\ call.exc = ""
        /\ Has(meas.attrs, "info")
        /\ \A p \in NumericFields :
              Has(meas.attrs, p[2]) /\ Has(InfoOf(meas), p[1]) =>
                  InBound(InfoOf(meas)[p[1]], meas.attrs[p[2]])

\* C3: on the two staircase models, after set_curr1, set_curr2 or
\* set_curr_step, num_points is floor(|curr2 - curr1| / curr_step) + 1, and
\* 1 when the step is 0.
C3_NumPointsFormula ==
    (meas.cls \in Stairs /\ call.op \in {"set_curr1", "set_curr2", "set_curr_step"}) =>
        /\ call.exc = ""
        /\ Has(meas.attrs, "num_points")
        /\ meas.attrs.num_points =
              IF meas.attrs.curr_step = 0 THEN 1
              ELSE (Abs(meas.attrs.curr2 - meas.attrs.curr1) \div meas.attrs.curr_step) + 1

\* C4: after any call of set_ramp_segments or of the setpoints and ramps list
\* setters, each of the two lists is stored, and is empty or has exactly
\* ramp_segments entries.
C4_ListsMatchSegments ==
    call.op \in {"Mag.set_ramp_segments", "Mag.set_setpoints_list", "Mag.set_ramps_list"} =>
        /\ call.exc = ""
        /\ Has(mag, "ramp_segments") /\ Has(mag, "setpoints_list") /\ Has(mag, "ramps_list")
        /\ Len(mag.setpoints_list) \in {0, mag.ramp_segments}
        /\ Len(mag.ramps_list) \in {0, mag.ramp_segments}

\* A list the setpoints setter accepts: 1..10 entries, each within the bound.
Acceptable(l) ==
    /\ InBound(MagInfo.seg, Len(l))
    /\ \A i \in 1..Len(l) : Abs(l[i]) <= DocField.hi

\* l in ascending order.
SortedAsc(l) ==
    CHOOSE t \in [1..Len(l) -> {l[i] : i \in 1..Len(l)}] :
        /\ \A i \in 1..(Len(l) - 1) : t[i] <= t[i + 1]
        /\ \A v \in {l[i] : i \in 1..Len(l)} :
              Cardinality({i \in 1..Len(l) : t[i] = v})
                  = Cardinality({i \in 1..Len(l) : l[i] = v})

\* C5: the setpoints setter returns normally, having stored the empty list
\* for a list of unacceptable length or with a value beyond the field bound,
\* and the list sorted ascending otherwise.
C5_SetpointsStored ==
    call.op = "Mag.set_setpoints_list" =>
        /\ call.exc = ""
        /\ Has(mag, "setpoints_list")
        /\ mag.setpoints_list =
              IF Acceptable(call.arg) THEN SortedAsc(call.arg) ELSE <<>>

\* The address operations of the three controllers and of the orchestrator.
AddressOps(instr) ==
    {instr \o ".address", instr \o ".set_address",
     CASE instr = "Keith" -> "ProbeGui.set_keith_address"
       [] instr = "Temp" -> "ProbeGui.set_temp_address"
       [] instr = "Mag" -> "ProbeGui.set_mag_address"}

\* An address operation on the controller o of kind instr left the address
\* stored: the input when it is in the registry range, the default otherwise.
AddressStored(instr, o) ==
    call.op \in AddressOps(instr) =>
        /\ call.exc = ""
        /\ Has(o, "_address")
        /\ o._address = Clamp(infodic(instr).addr, call.arg)

\* C6: every address assignment on any of the three controllers stores an
\* address within the registry range (1..31, 1..31, 1..10), the registry
\* default (12, 11, 2) standing in for an out-of-range input.
C6_AddressInRange ==
    /\ AddressStored("Keith", keith)
    /\ AddressStored("Temp", temp)
    /\ AddressStored("Mag", mag)

\* The mode Keith.arm works for: the stored index, the registry default in
\* the initial state.
ActiveMode ==
    IF Has(keith, "meas_type_idx") THEN keith.meas_type_idx ELSE KeithInfo.meas.def

\* The arm command and its arm-query for mode i.
ArmOps(i) == <<Write(format_cmd \o arm_switch(i)), Query(qarm(i))>>

\* C7: Keith.run() issues, in this order, the sweep abort, the arm command
\* and its arm-query, the 10 s timeout, INIT:IMM, *OPC?, TRAC:DATA? and,
\* once and last, the stop command.
C7_RunWireOrder ==
    call.op = "Keith.run" =>
        /\ call.exc = ""
        /\ wire = <<Write("SOUR:SWE:ABOR")>> \o ArmOps(ActiveMode)
                  \o <<<<"timeout", "10000">>, Write("INIT:IMM"), Query("*OPC?"),
                       Query("TRAC:DATA?"), Write("SOUR:SWE:ABOR; CLE:IMM")>>

\* C8: Keith.arm() writes one command, the format preamble followed by the
\* arm builder of the active mode, and then issues that mode's arm-query.
C8_ArmDispatch ==
    call.op = "Keith.arm" =>
        /\ call.exc = ""
        /\ wire = ArmOps(ActiveMode)

\* The loop whose ramp status a driver operation queries (0: none).
RampQueried(w) == IF w[1] = "query" /\ w[2] \in {"RAMPST? 1", "RAMPST? 2"}
                  THEN (IF w[2] = "RAMPST? 1" THEN 1 ELSE 2) ELSE 0

\* C9: Temp.run() returns having taken at least one sample and having
\* queried the ramp status of no loop that is not under control.
C9_RunSamples ==
    call.op = "Temp.run" =>
        /\ call.exc = ""
        /\ \E i \in 1..Len(wire) : wire[i][1] = "measure"
        /\ \A i \in 1..Len(wire) :
              /\ RampQueried(wire[i]) = 1 => Has(temp, "rad_control") /\ temp.rad_control
              /\ RampQueried(wire[i]) = 2 => Has(temp, "stage_control") /\ temp.stage_control

\* C10: for a trace of 5n values Keith.get_data() returns n rows, row i
\* holding values 5i..5i+4, five columns of length n, column j holding
\* values j, j+5, ..., and a text that begins with the header.
C10_GetDataShape ==
    call.op = "Keith.get_data" =>
        /\ call.exc = ""
        /\ Len(call.ret) = 1
        /\ LET n == Len(call.arg) \div 5
               out == call.ret[1]
           IN /\ Len(out.header) = 1
              /\ out.rows = [i \in 1..n |-> [k \in 1..5 |-> call.arg[5 * (i - 1) + k]]]
              /\ out.cols = [j \in 1..5 |-> [i \in 1..n |-> call.arg[j + 5 * (i - 1)]]]

\* The device handle of the driver at hand.
HandleOf(d) ==
    CASE d.cls = "vMag" -> d.mag
      [] d.cls = "vKeith" -> d.source
      [] OTHER -> d.thermo

WriteOps == {"vMag.write", "vKeith.write", "vTemp.write"}

QueryOps == {"vMag.query", "vKeith.query", "vTemp.query"}

Sent(w) == \E i \in 1..Len(w) : w[i][1] \in {"write", "query"}

Reported(w) == \E i \in 1..Len(w) : w[i][1] = "print" /\ w[i][2] # "None"

\* C12: on each of the three wire drivers, when the bus scan established no
\* device handle, every write and every query returns without raising,
\* returns None, sends nothing to the bus and prints a not-connected report.
C12_NoHandleReports ==
    (/\ Has(visa, "cls")
     /\ HandleOf(visa).kind # "Resource"
     /\ call.op \in WriteOps \cup QueryOps)
    => /\ call.exc = ""
       /\ call.ret = IF call.op \in WriteOps THEN <<>> ELSE <<PyNone>>
       /\ ~Sent(wire)
       /\ Reported(wire)

\* int(reply), for the replies in use
StateCode(reply) ==
    CASE reply = "0" -> 0
      [] reply = "1" -> 1
      [] reply = "7" -> 7
      [] reply = "10" -> 10
      [] OTHER -> 11

\* C20: on a connected magnet driver, vMag.qstate() returns the phrase of the
\* state table for a reply naming one of the codes 1..10 (code 7 gives
\* "Quench detected"), and finds no phrase for any other code.
C20_QstatePhrase ==
    (/\ call.op = "vMag.qstate"
     /\ visa.mag.kind = "Resource")
    => IF StateCode(call.arg) \in 1..10
       THEN /\ call.exc = ""
            /\ call.ret = <<state_table[StateCode(call.arg)]>>
            /\ (call.arg = "7" => call.ret = <<"Quench detected">>)
       ELSE call.exc = "KeyError"

\* C15: for every source_range_idx in 0..8 and every displayed value x,
\* curr_conv_mult(x) and curr_conv_div(x) return a value and
\* curr_conv_div(curr_conv_mult(x)) equals x.
C15_ConvInverse ==
    (/\ Has(keith, "source_range_idx")
     /\ call.op \in {"Keith.curr_conv_mult", "Keith.curr_conv_div",
                     "Keith.curr_conv_div(curr_conv_mult)"})
    => /\ call.exc = ""
       /\ call.op = "Keith.curr_conv_div(curr_conv_mult)"
            => call.ret[1][1] = call.arg * call.ret[1][2]

\* The field a loop setter writes for an output name.
LoopField(op, out) ==
    LET stem == CASE op = "Temp.set_setpoint" -> "setpoint"
                  [] op = "Temp.set_ramp" -> "ramp"
                  [] OTHER -> "power"
    IN IF out = "rad" THEN "rad_" \o stem ELSE "stage_" \o stem

\* What a loop setter is to store for an input.
LoopValue(op, x) ==
    CASE op = "Temp.set_setpoint" -> Clamp(TempInfo.setpt, x)
      [] op = "Temp.set_ramp" -> IF x = 0 THEN 0 ELSE Clamp(TempInfo.rate, x)
      [] OTHER -> Clamp(TempInfo.power, x)

\* C17: Temp.set_setpoint, Temp.set_ramp and Temp.set_power, called for the
\* output 'rad' or 'stage', return and store in that loop's field the input
\* when it is acceptable (3..325 K; 0.1..100 K/min or exactly 0; level 0..3)
\* and the registry default otherwise.
C17_LoopSetters ==
    (/\ call.op \in {"Temp.set_setpoint", "Temp.set_ramp", "Temp.set_power"}
     /\ call.arg[2] \in {"rad", "stage"})
    => /\ call.exc = ""
       /\ call.ret = <<LoopValue(call.op, call.arg[1])>>
       /\ Has(temp, LoopField(call.op, call.arg[2]))
       /\ temp[LoopField(call.op, call.arg[2])] = LoopValue(call.op, call.arg[1])

\* The filter type each single-filter mode is to report.
DocFilter(cls) == IF cls = "DiffCon" THEN "Repeating" ELSE "Moving"

\* C16: whatever filter index has been requested, the differential-
\* conductance model reports filter type Repeating and the staircase-sweep
\* and logarithmic-sweep models report filter type Moving.
C16_FilterLocked ==
    meas.cls \in {"DiffCon", "PDeltaStair", "PDeltaLog"}
    => /\ Has(meas.attrs, "filter_type")
       /\ meas.attrs.filter_type = DocFilter(meas.cls)

ParsOps == {"Mag.set_pars", "ProbeGui.set_mag_pars", "ProbeGui.start_mag"}

\* C18: Mag.set_pars() completes from every magnet-controller state and
\* hands the driver one target command, the segment-count command and one
\* rate command per ramp segment; neither it nor any other operation sends
\* RAMP.
C18_SetParsNoRamp ==
    /\ call.op \in ParsOps
         => /\ call.op # "ProbeGui.start_mag" => call.exc = ""
            /\ Has(mag, "ramp_segments")
            /\ Len(wire) = 2 + mag.ramp_segments
    /\ \A i \in 1..Len(wire) : wire[i] # Write("RAMP")

ToggleOps == {"ProbeGui.toggle_keith_for_run", "ProbeGui.toggle_temp_for_run"}

\* The window a toggle acts on.
WindowOf(op) == IF op = "ProbeGui.toggle_keith_for_run" THEN "kwind" ELSE "twind"

\* A control that does not respond to the operator.
Disabled(w) == ~w.enabled \/ w.readOnly \/ w.blocked \/ ~w.checkable

\* C11: in the source/detector window and in the temperature window, a
\* toggle of the running state to true leaves every combo, field, checkbox
\* and button1 control disabled and every button2 control responsive, and a
\* toggle to false leaves all of them enabled.
C11_ToggleForRun ==
    call.op \in ToggleOps
    => /\ call.exc = ""
       /\ Has(gui, WindowOf(call.op))
       /\ LET win == gui[WindowOf(call.op)]
          IN /\ \A grp \in {"combo", "field", "checkbox", "button1"} :
                   \A w \in win.signals_slots[grp] : Disabled(win.ui[w]) = call.arg
             /\ \A w \in win.signals_slots.button2 : ~Disabled(win.ui[w])

\* C13: after an orchestrator setter is called with an explicit value, in or
\* out of range, the widget, the UI-internal dictionary entry and the
\* controller hold the same value, the one the controller stored.
C13_WidgetShowsStored ==
    /\ call.op = "ProbeGui.set_keith_compliance"
         => /\ call.exc = ""
            /\ keith.compl_volt = Clamp(KeithInfo.compl_volt, call.arg)
            /\ gui.kwind.ui.complianceSpinbox.value = keith.compl_volt
            /\ gui.keith_ui_internal.set_keith_compliance = keith.compl_volt
    /\ call.op = "ProbeGui.set_keith_curr1"
         => /\ call.exc = ""
            /\ gui.kwind.ui.current1Spinbox.value = gui.keith_ui_internal.set_keith_curr1
    /\ call.op = "ProbeGui.set_temp_rad_setpoint"
         => /\ call.exc = ""
            /\ temp.rad_setpoint = Clamp(TempInfo.setpt, call.arg)
            /\ gui.twind.ui.radSetpointSpinbox.value = temp.rad_setpoint
            /\ gui.temp_ui_internal.set_temp_rad_setpoint = temp.rad_setpoint
    /\ call.op = "ProbeGui.set_mag_volt_limit"
         => /\ call.exc = ""
            /\ mag.volt_limit = Clamp(DocVolt, call.arg)
            /\ gui.mwind.ui.voltLimitSpinbox.value = mag.volt_limit
            /\ gui.mag_ui_internal.set_mag_volt_limit = mag.volt_limit

\* C14: load_keith_config / load_mag_config of a section with valid values,
\* followed at once by get_keith_config / get_mag_config, leaves in the
\* re-serialized section the loaded value under every key both paths handle
\* (here the address of both sections and the magnet target).
C14_ConfigRoundTrip ==
    /\ (/\ call.op = "ProbeGui.get_keith_config(load_keith_config)"
        /\ InBound(KeithInfo.addr, call.arg.address))
         => /\ call.exc = ""
            /\ gui.config.params.Keithley.address = call.arg.address
    /\ (/\ call.op = "ProbeGui.get_mag_config(load_mag_config)"
        /\ InBound(MagInfo.addr, call.arg.address))
         => /\ call.exc = ""
            /\ gui.config.params.Magnet.address = call.arg.address
            /\ gui.config.params.Magnet.target = call.arg.target

AppendOps == {"Save.header", "Save.data"}

RunOps == {"ProbeGui.start_keith", "ProbeGui.start_temp"}

\* C19: once Save.new has created the file named by a non-empty name, every
\* header or data append, and every completed source/detector or temperature
\* run, returns and leaves the file holding what it held before followed by
\* the text appended.
C19_AppendsKept ==
    [][(/\ gui.save.name # <<>>
        /\ call'.op \in AppendOps \cup RunOps)
       => LET path == gui.save.name[1]
          IN /\ call'.exc = ""
             /\ gui'.save.name = gui.save.name
             /\ Len(disk'[path]) = Len(disk[path]) + 1
             /\ SubSeq(disk'[path], 1, Len(disk[path])) = disk[path]
             /\ call'.op \in AppendOps
                  => disk'[path][Len(disk'[path])] = call'.arg]_vars

ForwardingSetters ==
    {"Mag.set_ramp_segments", "Mag.set_volt_limit", "Mag.set_curr_limit"}

\* The attribute a forwarding setter stores and hands to the driver.
Forwarded(op) ==
    CASE op = "Mag.set_ramp_segments" -> "ramp_segments"
      [] op = "Mag.set_volt_limit" -> "volt_limit"
      [] op = "Mag.set_curr_limit" -> "curr_limit"

\* C21: for every input, set_ramp_segments, set_volt_limit and
\* set_curr_limit of the magnet controller return normally, and the value
\* they store and forward passes the driver's hard validation (segment count
\* at least 1, limit at least 0).
C21_ForwardersNeverRaise ==
    call.op \in ForwardingSetters
    => /\ call.exc = ""
       /\ Has(mag, Forwarded(call.op))
       /\ mag[Forwarded(call.op)] >= (IF call.op = "Mag.set_ramp_segments" THEN 1 ELSE 0)

TargetOps == {"Mag.set_target", "Mag.set_field_unit"}

\* C22: after any set_target or set_field_unit call on the magnet
\* controller, the call has returned and the magnitude of the stored target
\* is within the bound of the unit now selected.
C22_TargetWithinUnitBound ==
    call.op \in TargetOps
    => /\ call.exc = ""
       /\ Has(mag, "target") /\ Has(mag, "field_unit_idx")
       /\ Abs(mag.target) <= field_lim[mag.field_unit_idx]

\* A loop of the temperature controller is under control.
Controlled(name) == Has(temp, name) /\ temp[name]

\* What Temp.stop is to send: the three stop commands per controlled loop.
StopWire ==
    (IF Controlled("rad_control") THEN StopOps(1) ELSE <<>>)
    \o (IF Controlled("stage_control") THEN StopOps(2) ELSE <<>>)

\* The loop an output-mode or heater-range command addresses, 0 for any
\* other driver operation.
LoopSwitched(w) ==
    IF w[1] = "write" /\ w[2][1] \in {"OUTMODE", "RANGE"} THEN w[2][2] ELSE 0

\* C23: Temp.stop() returns with running false, having sent ramp rate 0,
\* heater Low and output re-enable for exactly the controlled loops, and
\* Temp.run() returns having sent no output-mode or heater-range command to
\* a loop that is not under control.
C23_OnlyControlledLoops ==
    /\ call.op = "Temp.stop"
         => /\ call.exc = ""
            /\ Has(temp, "running") /\ ~temp.running
            /\ wire = StopWire
    /\ call.op = "Temp.run"
         => /\ call.exc = ""
            /\ \A i \in 1..Len(wire) :
                  /\ LoopSwitched(wire[i]) = 1 => Controlled("rad_control")
                  /\ LoopSwitched(wire[i]) = 2 => Controlled("stage_control")

\* C25: a step of Keith.set_meas_type returns and changes nothing of the
\* controller but the active measurement-type index (the five models and
\* their parameters stay as they were), and a step of a parameter setter
\* given an explicit measurement-type index returns and leaves the active
\* index as it was.
C25_TypeSwitchFrame ==
    [][/\ call'.op = "Keith.set_meas_type"
            => /\ call'.exc = ""
               /\ Has(keith', "meas_type_idx")
               /\ \A a \in DOMAIN keith \ {"meas_type_idx"} :
                     Has(keith', a) /\ keith'[a] = keith[a]
               /\ DOMAIN keith' \subseteq DOMAIN keith \cup {"meas_type_idx"}
       /\ (call'.op = "Keith.set_filter_idx" /\ call'.arg[2])
            => /\ call'.exc = ""
               /\ Has(keith', "meas_type_idx") = Has(keith, "meas_type_idx")
               /\ Has(keith, "meas_type_idx")
                    => keith'.meas_type_idx = keith.meas_type_idx]_vars

RangeOps == {"Keith.set_source_range", "Keith.set_source_range_type"}

\* The driver operation vKeith.set_source_range(meas_idx, auto, rang).
IsRangeCmd(w) == w[1] = "write" /\ w[2][1] = "set_source_range"

\* C26: Keith.set_source_range and Keith.set_source_range_type return having
\* sent one source-range command to the instrument, with auto-ranging
\* requested exactly when the stored source range type is Best (index 0),
\* whatever source range index is selected.
C26_AutoIffBest ==
    call.op \in RangeOps
    => /\ call.exc = ""
       /\ Len(wire) = 1 /\ IsRangeCmd(wire[1])
       /\ Has(keith, "source_range_type_idx")
       /\ wire[1][2][3] = (keith.source_range_type_idx = 0)

LoopOps == {"Temp.set_setpoint", "Temp.set_ramp", "Temp.set_power"}

\* C27: at every step, whatever calls came before, a loop setter called
\* with the output name 'rad' or 'stage' accepts the name: it returns a
\* value rather than raising or rejecting the output.
C27_ValidNameEveryCall ==
    [][(call'.op \in LoopOps /\ call'.arg[2] \in {"rad", "stage"})
       => (call'.exc = "" /\ call'.ret # <<>>)]_vars

UpdateOps ==
    {"ProbeGui.update_keith_ui", "ProbeGui.update_temp_ui", "ProbeGui.update_mag_ui"}

\* C28: a replay of a window's UI-internal dictionary returns and leaves
\* every controller as it was, and the stored voltmeter range index, handed
\* back to Keith.set_volt_range, selects the range already stored.
C28_ReplayChangesNothing ==
    [][/\ call'.op \in UpdateOps
            => (call'.exc = "" /\ keith' = keith /\ temp' = temp /\ mag' = mag)
       /\ (/\ call'.op = "Keith.set_volt_range"
           /\ Has(keith, "volt_range_idx")
           /\ call'.arg = keith.volt_range_idx)
            => keith'.volt_range_idx = keith.volt_range_idx]_vars

\* The controls of a window whose action starts a run.
RunControls(win) == IF win = "kwind" THEN {"startButton"} ELSE {"runButton"}

\* The running state of a window.
RunningFlag(win) == IF win = "kwind" THEN "krunning" ELSE "trunning"

\* C24: a toggle of a window's running state to true returns with the
\* running state true and with every control of the window that starts a
\* run suppressed, so that no second run can be started until the state is
\* toggled back.
C24_NoSecondRun ==
    (call.op \in ToggleOps /\ call.arg = TRUE)
    => /\ call.exc = ""
       /\ Has(gui, RunningFlag(WindowOf(call.op)))
       /\ gui[RunningFlag(WindowOf(call.op))]
       /\ \A w \in RunControls(WindowOf(call.op)) :
             Disabled(gui[WindowOf(call.op)].ui[w])

GuardOps ==
    {"vMag.set_ramp_segs", "vMag.set_rate", "vMag.set_volt_limit",
     "vMag.set_curr_limit"}

\* The inputs the guards of the magnet driver are to refuse.
Refused(op, x) ==
    CASE op = "vMag.set_ramp_segs" -> x < 1
      [] op = "vMag.set_rate" -> x[1] < 0 \/ x[2] \notin {"curr", "field"}
      [] OTHER -> x < 0

\* C29: a step of set_ramp_segs, set_rate, set_volt_limit or set_curr_limit
\* of the magnet driver given a refused input (n < 1, a negative segment
\* index or a unit other than current/field, a negative limit) ends in the
\* invalid-input signal with the driver unchanged and nothing sent; given
\* any other input it ends without a signal, the segment-count command
\* staged, the other commands sent when the magnet is connected.
C29_DriverGuards ==
    [][call'.op \in GuardOps
       => IF Refused(call'.op, call'.arg)
          THEN call'.exc = "ValueError" /\ visa' = visa /\ wire' = <<>>
          ELSE /\ call'.exc = ""
               /\ call'.op = "vMag.set_ramp_segs"
                    => /\ visa'.ramp_segs_cmd
                            = "CONF:RAMP:RATE:SEG " \o ToString(call'.arg)
                       /\ ~Sent(wire')
               /\ call'.op # "vMag.set_ramp_segs"
                    => (Sent(wire') <=> visa.mag.kind = "Resource")]_vars

\* A negative limit has just been refused by a connected magnet driver that
\* accepted a segment count and a ramp rate before.
C29_Witness ==
    /\ call.op = "vMag.set_volt_limit" /\ call.arg = -1
    /\ call.exc = "ValueError"
    /\ visa.mag.kind = "Resource"
    /\ visa.ramp_segs_cmd # ""
    /\ Has(visa, "rate_cmd")

\* The multiplier the range index is to select, in nA: 1e-9 A for indices
\* 0..2, 1e-6 A for 3..5, 1e-3 A for 6..8.
DocMult(idx) == Pow10(3 * (idx \div 3))

\* C30: with a source range index in 0..8 stored, curr_conv_mult(x) returns
\* x times, and curr_conv_div(x) x divided by, the multiplier selected by
\* source_range_idx // 3.
C30_MultiplierByRange ==
    Has(keith, "source_range_idx")
    => /\ call.op = "Keith.curr_conv_mult"
            => /\ call.exc = ""
               /\ call.ret = <<call.arg * DocMult(keith.source_range_idx)>>
       /\ call.op = "Keith.curr_conv_div"
            => /\ call.exc = ""
               /\ call.ret = <<<<call.arg, DocMult(keith.source_range_idx)>>>>

====
